---- MODULE Spec2Model ----
(***************************************************************************)
(* Model of the humn reactive runtime: the Cortex state container          *)
(* (packages/humn/src/cortex.js), the observer slot (observer.js) and the  *)
(* root driver (src/mount.js).                                             *)
(*                                                                         *)
(* Strings are sequences of one-character strings, so that the string     *)
(* operations of the code (concatenation, startsWith) are computed on      *)
(* characters as the code computes them.                                   *)
(***************************************************************************)
EXTENDS Integers, Sequences, FiniteSets, TLC

(***************************************************************************)
(* Bounds of the model.                                                    *)
(***************************************************************************)
MaxSubs == 2    \* mount() calls (subscriber closures) per Cortex instance
MaxArr == 1     \* longest array the updaters grow by push

(***************************************************************************)
(* Property names used by the modelled application.                        *)
(***************************************************************************)
kA == <<"a">>
kAB == <<"a", "b">>
kB == <<"b">>
kC == <<"c">>
kL == <<"l">>
kK == <<"k">>
kLength == <<"l", "e", "n", "g", "t", "h">>
NoKey == <<>>

\* Enumeration order of the property names of an object (Object.entries,
\* Object.keys, JSON.stringify).
KeyOrder == <<kA, kAB, kB, kC, kL>>

(***************************************************************************)
(* JavaScript values: numbers, null, undefined, plain objects, arrays.    *)
(***************************************************************************)
Num(n) == [t |-> "num", n |-> n]
Null == [t |-> "null"]
Undef == [t |-> "undef"]
Obj(f) == [t |-> "obj", f |-> f]
Arr(s) == [t |-> "arr", items |-> s]
EmptyObj == Obj([k \in {} |-> Undef])

\* typeof v === 'object' && v !== null
IsObject(v) == v.t \in {"obj", "arr"}

\* JavaScript truthiness
Truthy(v) ==
  CASE v.t = "num" -> v.n # 0
    [] v.t \in {"null", "undef"} -> FALSE
    [] OTHER -> TRUE

\* String(n) for an array index
DigitChars == <<"0", "1", "2", "3", "4", "5", "6", "7", "8", "9">>
IndexKey(n) == <<DigitChars[n + 1]>>
IsIndexKey(k) == Len(k) = 1 /\ \E n \in 0..9 : DigitChars[n + 1] = k[1]
KeyIndex(k) == CHOOSE n \in 0..9 : DigitChars[n + 1] = k[1]

\* target[prop]
GetProp(v, prop) ==
  CASE v.t = "obj" -> IF prop \in DOMAIN v.f THEN v.f[prop] ELSE Undef
    [] v.t = "arr" ->
         IF prop = kLength THEN Num(Len(v.items))
         ELSE IF IsIndexKey(prop) /\ KeyIndex(prop) < Len(v.items)
              THEN v.items[KeyIndex(prop) + 1]
              ELSE Undef
    [] OTHER -> Undef

\* target[prop] = value (on an object or an array)
SetProp(v, prop, value) ==
  CASE v.t = "obj" ->
         Obj([k \in DOMAIN v.f \cup {prop} |-> IF k = prop THEN value ELSE v.f[k]])
    [] v.t = "arr" ->
         IF prop = kLength
           THEN Arr(SubSeq(v.items, 1, value.n))
         ELSE IF IsIndexKey(prop) /\ KeyIndex(prop) < Len(v.items)
           THEN Arr([v.items EXCEPT ![KeyIndex(prop) + 1] = value])
         ELSE IF IsIndexKey(prop) /\ KeyIndex(prop) = Len(v.items)
           THEN Arr(Append(v.items, value))
         ELSE v
    [] OTHER -> v

\* A property can hold a reference instead of a value: Ref(a) is the object
\* at address a, and two references are the same object when they are equal.
Ref(a) == [t |-> "ref", a |-> a]

\* structuredClone(o) of an object whose properties hold references: every
\* object referred to is copied to an address not in use
Cloned(o) ==
  Obj([k \in DOMAIN o.f |-> IF o.f[k].t = "ref" THEN Ref(o.f[k].a + 10) ELSE o.f[k]])

\* { ...base, ...over } on plain objects
Spread(base, over) ==
  Obj([k \in DOMAIN base.f \cup DOMAIN over.f |->
        IF k \in DOMAIN over.f THEN over.f[k] ELSE base.f[k]])

\* Object.keys(o)
ObjectKeys(o) == DOMAIN o.f

(***************************************************************************)
(* Paths: dot-delimited strings.                                           *)
(***************************************************************************)
\* s.startsWith(prefix)
StartsWith(s, prefix) ==
  Len(prefix) <= Len(s) /\ SubSeq(s, 1, Len(prefix)) = prefix

\* Variant of FullPath: the property name alone, the path of the parent lost.
FullPathPropOnly(path, prop) == prop

\* path ? `${path}.${prop}` : prop
FullPath(path, prop) ==
  IF path # <<>> THEN path \o <<".">> \o prop ELSE prop

(***************************************************************************)
(* JSON.stringify / JSON.parse on the modelled values.                    *)
(***************************************************************************)
Quote(k) == <<"\"">> \o k \o <<"\"">>
NullText == <<"n", "u", "l", "l">>
UndefinedText == <<"u", "n", "d", "e", "f", "i", "n", "e", "d">>

RECURSIVE Stringify(_)
RECURSIVE StringifyMembers(_, _, _)
RECURSIVE StringifyItems(_, _)

\* members of an object from position i of KeyOrder on; undefined members
\* are left out
StringifyMembers(o, i, first) ==
  IF i > Len(KeyOrder) THEN <<>>
  ELSE LET k == KeyOrder[i] IN
       IF k \notin DOMAIN o.f \/ o.f[k].t = "undef"
         THEN StringifyMembers(o, i + 1, first)
         ELSE (IF first THEN <<>> ELSE <<",">>) \o Quote(k) \o <<":">>
              \o Stringify(o.f[k]) \o StringifyMembers(o, i + 1, FALSE)

\* elements of an array from position i on; undefined becomes null
StringifyItems(items, i) ==
  IF i > Len(items) THEN <<>>
  ELSE (IF i = 1 THEN <<>> ELSE <<",">>)
       \o (IF items[i].t = "undef" THEN NullText ELSE Stringify(items[i]))
       \o StringifyItems(items, i + 1)

\* JSON.stringify(v), for v other than undefined
Stringify(v) ==
  CASE v.t = "num" -> IndexKey(v.n)
    [] v.t = "null" -> NullText
    [] v.t = "obj" -> <<"{">> \o StringifyMembers(v, 1, TRUE) \o <<"}">>
    [] v.t = "arr" -> <<"[">> \o StringifyItems(v.items, 1) \o <<"]">>
    [] OTHER -> UndefinedText

\* Result of a parsing step: ok, the value, the position after it.
PFail == [ok |-> FALSE, val |-> Undef, next |-> 0]
POk(v, n) == [ok |-> TRUE, val |-> v, next |-> n]
CharAt(s, i) == IF i <= Len(s) THEN s[i] ELSE "EOF"
Letters == {"a", "b", "c", "k", "l"}

RECURSIVE ParseValue(_, _)
RECURSIVE ParseMembers(_, _, _)
RECURSIVE ParseItems(_, _, _)
RECURSIVE ParseKeyEnd(_, _)

\* position of the closing quote of a key that starts at i, 0 if none
ParseKeyEnd(s, i) ==
  IF CharAt(s, i) = "\"" THEN i
  ELSE IF CharAt(s, i) \in Letters THEN ParseKeyEnd(s, i + 1)
  ELSE 0

\* "key":value pairs up to the closing brace, collected in o
ParseMembers(s, i, o) ==
  IF CharAt(s, i) # "\"" THEN PFail
  ELSE LET e == ParseKeyEnd(s, i + 1) IN
       IF e = 0 \/ CharAt(s, e + 1) # ":" THEN PFail
       ELSE LET k == SubSeq(s, i + 1, e - 1)
                r == ParseValue(s, e + 2)
            IN IF ~r.ok THEN PFail
               ELSE LET o2 == SetProp(o, k, r.val) IN
                    IF CharAt(s, r.next) = "}" THEN POk(o2, r.next + 1)
                    ELSE IF CharAt(s, r.next) = "," THEN ParseMembers(s, r.next + 1, o2)
                    ELSE PFail

\* elements up to the closing bracket, collected in items
ParseItems(s, i, items) ==
  LET r == ParseValue(s, i) IN
  IF ~r.ok THEN PFail
  ELSE LET items2 == Append(items, r.val) IN
       IF CharAt(s, r.next) = "]" THEN POk(Arr(items2), r.next + 1)
       ELSE IF CharAt(s, r.next) = "," THEN ParseItems(s, r.next + 1, items2)
       ELSE PFail

ParseValue(s, i) ==
  LET c == CharAt(s, i) IN
  IF \E n \in 0..9 : DigitChars[n + 1] = c
    THEN POk(Num(KeyIndex(<<c>>)), i + 1)
  ELSE IF c = "n"
    THEN IF Len(s) >= i + 3 /\ SubSeq(s, i, i + 3) = NullText
           THEN POk(Null, i + 4) ELSE PFail
  ELSE IF c = "{"
    THEN IF CharAt(s, i + 1) = "}" THEN POk(EmptyObj, i + 2)
         ELSE ParseMembers(s, i + 1, EmptyObj)
  ELSE IF c = "["
    THEN IF CharAt(s, i + 1) = "]" THEN POk(Arr(<<>>), i + 2)
         ELSE ParseItems(s, i + 1, <<>>)
  ELSE PFail

\* JSON.parse(text): ok is FALSE where JSON.parse throws a SyntaxError
JsonParse(text) ==
  LET r == ParseValue(text, 1) IN
  IF r.ok /\ r.next = Len(text) + 1 THEN [ok |-> TRUE, val |-> r.val]
  ELSE [ok |-> FALSE, val |-> Undef]

(***************************************************************************)
(* The application: memory configurations, components, updaters and       *)
(* synapses.  These are user code; the runtime is modelled below.         *)
(***************************************************************************)
\* persist(initial, config): the marker; key is NoKey when config.key is
\* not given
Persist(initial, key) == [t |-> "persist", initial |-> initial, key |-> key]

Deep(n) == Obj((kB :> Obj((kC :> Num(n)))))

\* { a: persist({ b: { c: 0 } }, { key: 'k' }), ab: 0, c: persist(0), l: [] }
PersistConfig ==
  (kA :> Persist(Deep(0), kK)) @@ (kAB :> Num(0)) @@ (kC :> Persist(Num(0), NoKey))
  @@ (kL :> Arr(<<>>))

Configs == {PersistConfig}

\* keys of the durable store, and what it may hold before the first
\* construction: nothing, a serialized value, or text that is not JSON
StorageKeys == {kK, kC}
NoItem == <<"<null>">>
Garbage == <<"{", "a">>
InitialStores ==
  { (kK :> NoItem) @@ (kC :> NoItem),
    (kK :> Stringify(Deep(1))) @@ (kC :> Stringify(Num(1))),
    (kK :> Garbage) @@ (kC :> Stringify(Null)) }

\* A component: the `memory` accesses it makes when it runs, each access a
\* sequence of property chains read (with optional chaining) through the
\* wrapper that access returned.  After `pre`, a component with a condition
\* reads the chain `cond` through one more access, and then makes the
\* accesses `yes` if the value is truthy and `no` otherwise.
Comp(pre, cond, yes, no) == [pre |-> pre, cond |-> cond, yes |-> yes, no |-> no]

CompCount == Comp(<< <<<<kC>>>> >>, <<>>, <<>>, <<>>)
CompCond == Comp(<<>>, <<kC>>, << <<<<kA, kB, kC>>>> >>, << <<<<kAB>>>> >>)
CompAll == Comp(<< <<<<kA, kB, kC>>, <<kAB>>, <<kC>>>>, <<<<kL>>>> >>, <<>>, <<>>, <<>>)
Components == {CompCount, CompCond, CompAll}

\* An updater: an object to merge, or a function that performs `writes`
\* through the wrapper and returns `ret`.
Merge(o) == [kind |-> "merge", obj |-> Obj(o)]
Fn(writes, ret) == [kind |-> "fn", writes |-> writes, ret |-> ret]
Assign(chain, value) == [op |-> "assign", chain |-> chain, val |-> value]
Push(chain, value) == [op |-> "push", chain |-> chain, val |-> value]

MergeC(n) == Merge((kC :> Num(n)))
MergeAB(n) == Merge((kAB :> Num(n)))
MergeA(n) == Merge((kA :> Deep(n)))
MergeL == Merge((kL :> Arr(<<>>)))
\* set((state) => { state.a.b.c = 1 })
FnDeep == Fn(<<Assign(<<kA, kB, kC>>, Num(1))>>, Undef)
\* set((state) => { state.a = { b: {} }; state.a.b.c = 0 })
FnAssignObject ==
  Fn(<<Assign(<<kA>>, Obj((kB :> EmptyObj))), Assign(<<kA, kB, kC>>, Num(0))>>, Undef)
\* set((state) => { state.l.push(1) })
FnPush == Fn(<<Push(<<kL>>, Num(1))>>, Undef)
\* set((state) => { state.c = 1; return { ab: 1 } })
FnWriteAndReturn == Fn(<<Assign(<<kC>>, Num(1))>>, Obj((kAB :> Num(1))))
\* set((state) => ({ c: 0 }))
FnReturnOnly == Fn(<<>>, Obj((kC :> Num(0))))
\* set((state) => (state.ab = 0))
FnReturnNumber == Fn(<<Assign(<<kAB>>, Num(0))>>, Num(0))
\* set((state) => { state.c = 1; state.ab.b.c = 1 }): the second write throws
FnThrows == Fn(<<Assign(<<kC>>, Num(1)), Assign(<<kAB, kB, kC>>, Num(1))>>, Undef)

\* set({ a: { b: { c: 1 } }, c: 1 })
MergeBoth == Merge((kA :> Deep(1)) @@ (kC :> Num(1)))

\* The synapses: each a sequence of set calls.
Synapses ==
  { <<MergeC(1)>>, <<MergeAB(1)>>, <<MergeA(1)>>, <<MergeL>>,
    <<FnDeep>>, <<FnAssignObject>>, <<FnPush>>, <<FnWriteAndReturn>>,
    <<FnReturnOnly>>, <<FnReturnNumber>>, <<FnThrows>>,
    <<MergeA(0), MergeAB(0), MergeC(0)>> }

(***************************************************************************)
(* Cortex: the read-tracking wrapper and the `memory` getter.             *)
(***************************************************************************)
NoObserver == 0

RECURSIVE AccessTrackingProxy(_, _, _, _)
\* Reading the property chain `chain` from _createAccessTrackingProxy(obj,
\* accessedPaths, path): every get trap adds its full path; a value that is
\* not an object is returned unwrapped, so what is read from it is not
\* recorded.  The result is accessedPaths after the reads.
AccessTrackingProxy(obj, accessedPaths, path, chain) ==
  IF chain = <<>> \/ ~IsObject(obj) THEN accessedPaths
  ELSE LET prop == Head(chain)
           fullPath == FullPath(path, prop)
       IN AccessTrackingProxy(GetProp(obj, prop), accessedPaths \cup {fullPath},
                              fullPath, Tail(chain))

RECURSIVE ReadChains(_, _, _)
\* the chains of one access, read in order through the wrapper of _memory
ReadChains(memory, accessedPaths, chains) ==
  IF chains = <<>> THEN accessedPaths
  ELSE ReadChains(memory, AccessTrackingProxy(memory, accessedPaths, <<>>, Head(chains)),
                  Tail(chains))

HasListener(listeners, fn) == \E i \in 1..Len(listeners) : listeners[i].fn = fn
ListenerIndex(listeners, fn) == CHOOSE i \in 1..Len(listeners) : listeners[i].fn = fn
\* this._listeners.get(fn), the empty set when fn has no entry
PathsOf(listeners, fn) ==
  IF HasListener(listeners, fn) THEN listeners[ListenerIndex(listeners, fn)].paths ELSE {}

\* Variant of MemoryGetter: every access clears the paths recorded so far.
MemoryGetterClearing(listeners, currentObserver) ==
  IF currentObserver = NoObserver THEN listeners
  ELSE IF ~HasListener(listeners, currentObserver)
    THEN Append(listeners, [fn |-> currentObserver, paths |-> {}])
  ELSE [listeners EXCEPT ![ListenerIndex(listeners, currentObserver)].paths = {}]

\* Variant of MemoryGetter: no early return without an observer, the null
\* observer gets an entry like any other.
MemoryGetterTrackingNull(listeners, currentObserver) ==
  IF ~HasListener(listeners, currentObserver)
    THEN Append(listeners, [fn |-> currentObserver, paths |-> {}])
  ELSE listeners

\* get memory(): with an observer, make sure it has an entry in _listeners;
\* the wrapper returned records into that entry.
MemoryGetter(listeners, currentObserver) ==
  IF currentObserver = NoObserver THEN listeners
  ELSE IF ~HasListener(listeners, currentObserver)
    THEN Append(listeners, [fn |-> currentObserver, paths |-> {}])
  ELSE listeners

\* One `memory` access by the running render, followed by its reads.
MemoryAccess(memory, listeners, currentObserver, chains) ==
  LET ls == MemoryGetter(listeners, currentObserver) IN
  IF currentObserver = NoObserver THEN ls
  ELSE LET i == ListenerIndex(ls, currentObserver) IN
       [ls EXCEPT ![i].paths = ReadChains(memory, ls[i].paths, chains)]

RECURSIVE RunAccesses(_, _, _, _)
RunAccesses(memory, listeners, currentObserver, accesses) ==
  IF accesses = <<>> THEN listeners
  ELSE RunAccesses(memory,
                   MemoryAccess(memory, listeners, currentObserver, Head(accesses)),
                   currentObserver, Tail(accesses))

RECURSIVE GetChain(_, _)
\* v?.k1?.k2 ... : the value at the end of a property chain
GetChain(v, chain) ==
  IF chain = <<>> THEN v ELSE GetChain(GetProp(v, Head(chain)), Tail(chain))

\* The accesses a component makes when it runs against `memory`.
ProgramAccesses(comp, memory) ==
  comp.pre \o
  (IF comp.cond = <<>> THEN <<>>
   ELSE << <<comp.cond>> >> \o
        (IF Truthy(GetChain(memory, comp.cond)) THEN comp.yes ELSE comp.no))

RECURSIVE PathsRead(_, _)
\* The paths a render reads: every property read through a wrapper, over
\* all its accesses.
PathsRead(memory, accesses) ==
  IF accesses = <<>> THEN {}
  ELSE ReadChains(memory, {}, Head(accesses)) \cup PathsRead(memory, Tail(accesses))

(***************************************************************************)
(* mount: the lifecycle closure.  The state threaded through a handler is *)
(* a record st of the runtime state and of the observation variables.     *)
(***************************************************************************)
\* lifecycle(): setObserver(lifecycle); patch(...) runs the component;
\* setObserver(null).  saw observes what the closure finds when it is
\* called: the memory its reads return and the content of the store.
Lifecycle(st, fn, component) ==
  LET accesses == ProgramAccesses(component, st.memory) IN
  [st EXCEPT !.listeners = RunAccesses(st.memory, st.listeners, fn, accesses),
             !.lastReads[fn] = PathsRead(st.memory, accesses),
             !.renders[fn] = @ + 1,
             !.saw = Append(@, [fn |-> fn, memory |-> st.memory,
                                storage |-> st.storage])]

(***************************************************************************)
(* Cortex: notification.                                                   *)
(***************************************************************************)
\* Variant of PathsRelate: prefixes compared without the dot boundary.
PathsRelateNoBoundary(accessedPath, changedPath) ==
  \/ accessedPath = changedPath
  \/ StartsWith(accessedPath, changedPath)
  \/ StartsWith(changedPath, accessedPath)

\* the test of _notifyRelevantListeners on one pair of paths
PathsRelate(accessedPath, changedPath) ==
  \/ accessedPath = changedPath
  \/ StartsWith(accessedPath, changedPath \o <<".">>)
  \/ StartsWith(changedPath, accessedPath \o <<".">>)

ShouldNotify(accessedPaths, changedPaths) ==
  \E accessedPath \in accessedPaths : \E changedPath \in changedPaths :
    PathsRelate(accessedPath, changedPath)

RECURSIVE NotifyFrom(_, _, _, _, _)
\* this._listeners.forEach from entry i on; Map.forEach visits the entries in
\* insertion order, those added during the iteration included.
\* The result is [st, invoked]: invoked lists the closures called, in order.
NotifyFrom(st, roots, changedPaths, i, invoked) ==
  IF i > Len(st.listeners) THEN [st |-> st, invoked |-> invoked]
  ELSE LET entry == st.listeners[i] IN
       IF ShouldNotify(entry.paths, changedPaths)
         THEN NotifyFrom(Lifecycle(st, entry.fn, roots[entry.fn]), roots, changedPaths,
                         i + 1, Append(invoked, entry.fn))
         ELSE NotifyFrom(st, roots, changedPaths, i + 1, invoked)

RECURSIVE NotifyOnceFrom(_, _, _, _, _)
NotifyOnceFrom(st, roots, changedPaths, i, invoked) ==
  IF i > Len(st.listeners) THEN [st |-> st, invoked |-> invoked]
  ELSE LET entry == st.listeners[i] IN
       IF ShouldNotify(entry.paths, changedPaths) /\ st.renders[entry.fn] = 0
         THEN NotifyOnceFrom(Lifecycle(st, entry.fn, roots[entry.fn]), roots,
                             changedPaths, i + 1, Append(invoked, entry.fn))
         ELSE NotifyOnceFrom(st, roots, changedPaths, i + 1, invoked)

\* Variant of NotifyRelevantListeners: the set calls of one synapse are
\* batched, a closure already rendered during the synapse is not called again.
NotifyBatched(st, roots, changedPaths) ==
  NotifyOnceFrom(st, roots, changedPaths, 1, <<>>)

RECURSIVE NotifyDownFrom(_, _, _, _, _)
NotifyDownFrom(st, roots, changedPaths, i, invoked) ==
  IF i < 1 THEN [st |-> st, invoked |-> invoked]
  ELSE LET entry == st.listeners[i] IN
       IF ShouldNotify(entry.paths, changedPaths)
         THEN NotifyDownFrom(Lifecycle(st, entry.fn, roots[entry.fn]), roots,
                             changedPaths, i - 1, Append(invoked, entry.fn))
         ELSE NotifyDownFrom(st, roots, changedPaths, i - 1, invoked)

\* Variant of NotifyRelevantListeners: the entries visited last to first.
NotifyReversed(st, roots, changedPaths) ==
  NotifyDownFrom(st, roots, changedPaths, Len(st.listeners), <<>>)

NotifyRelevantListeners(st, roots, changedPaths) ==
  NotifyFrom(st, roots, changedPaths, 1, <<>>)

(***************************************************************************)
(* Cortex: the write-tracking wrapper.                                     *)
(***************************************************************************)
Thrown == [ok |-> FALSE]

RECURSIVE ChangeTrackingProxy(_, _, _, _)
\* One write w of the updater through _createChangeTrackingProxy(obj,
\* changedPaths, path): the get traps walk the chain, wrapping every object
\* on the way with its full path; the set trap records the full path and
\* assigns.  push assigns the next index and then `length` through the set
\* trap.  The result is [ok, obj, changedPaths]; ok is FALSE where the
\* updater throws a TypeError (a property of undefined, an assignment to a
\* property of a primitive in strict code, push on something not an array).
ChangeTrackingProxy(obj, changedPaths, path, w) ==
  IF w.op = "assign" /\ Len(w.chain) = 1
    THEN LET fullPath == FullPath(path, w.chain[1]) IN
         [ok |-> TRUE, obj |-> SetProp(obj, w.chain[1], w.val),
          changedPaths |-> changedPaths \cup {fullPath}]
  ELSE IF w.op = "push" /\ w.chain = <<>>
    THEN IF obj.t # "arr" THEN Thrown
         ELSE LET n == Len(obj.items) IN
              [ok |-> TRUE,
               obj |-> SetProp(SetProp(obj, IndexKey(n), w.val), kLength, Num(n + 1)),
               changedPaths |-> changedPaths \cup {FullPath(path, IndexKey(n)),
                                                   FullPath(path, kLength)}]
  ELSE LET prop == Head(w.chain)
           value == GetProp(obj, prop)
           fullPath == FullPath(path, prop)
       IN IF ~IsObject(value) THEN Thrown
          ELSE LET r == ChangeTrackingProxy(value, changedPaths, fullPath,
                                            [w EXCEPT !.chain = Tail(w.chain)])
               IN IF ~r.ok THEN Thrown
                  ELSE [ok |-> TRUE, obj |-> SetProp(obj, prop, r.obj),
                        changedPaths |-> r.changedPaths]

RECURSIVE RunUpdater(_, _, _)
\* updater(proxy): the writes in order
RunUpdater(clone, changedPaths, writes) ==
  IF writes = <<>> THEN [ok |-> TRUE, obj |-> clone, changedPaths |-> changedPaths]
  ELSE LET r == ChangeTrackingProxy(clone, changedPaths, <<>>, Head(writes)) IN
       IF ~r.ok THEN Thrown ELSE RunUpdater(r.obj, r.changedPaths, Tail(writes))

(***************************************************************************)
(* Paths as the properties read them: sequences of dot-separated segments. *)
(***************************************************************************)
RECURSIVE Segments(_)
\* the segments of a dot-delimited path
Segments(p) ==
  IF \A i \in 1..Len(p) : p[i] # "." THEN <<p>>
  ELSE LET d == CHOOSE i \in 1..Len(p) : p[i] = "." /\ \A j \in 1..(i - 1) : p[j] # "."
       IN <<SubSeq(p, 1, d - 1)>> \o Segments(SubSeq(p, d + 1, Len(p)))

IsPrefix(a, b) == Len(a) <= Len(b) /\ \A i \in 1..Len(a) : a[i] = b[i]

Range(seq) == {seq[i] : i \in 1..Len(seq)}

\* the path p is the field f or a dot-descendant of it
WithinField(p, f) == IsPrefix(<<f>>, Segments(p))

\* the fields of `fields` that some path of changedPaths is within
FieldsChanged(changedPaths, fields) ==
  {f \in fields : \E p \in changedPaths : WithinField(p, f)}

(***************************************************************************)
(* Cortex: set.                                                            *)
(***************************************************************************)
\* Variant of ObjectMerge: the memory is cloned before the object is merged
\* into it, as the functional branch does.
ObjectMergeCloning(memory, updater) ==
  [ok |-> TRUE, nextState |-> Spread(Cloned(memory), updater),
   changedPaths |-> ObjectKeys(updater), memory |-> memory]

\* Variant of ObjectMerge: the object replaces the memory instead of being
\* merged into it.
ObjectMergeReplacing(memory, updater) ==
  [ok |-> TRUE, nextState |-> updater, changedPaths |-> ObjectKeys(updater),
   memory |-> memory]

\* Variant of ObjectMerge: the object is assigned onto the current memory
\* object, which stays the memory.
ObjectMergeInPlace(memory, updater) ==
  [ok |-> TRUE, nextState |-> Spread(memory, updater),
   changedPaths |-> ObjectKeys(updater), memory |-> Spread(memory, updater)]

\* The object-merge branch: [ok, nextState, changedPaths, memory]; memory is
\* the object this._memory held before the call, as the call leaves it (the
\* spread builds a new object).
ObjectMerge(memory, updater) ==
  [ok |-> TRUE, nextState |-> Spread(memory, updater),
   changedPaths |-> ObjectKeys(updater), memory |-> memory]

\* structuredClone(value): a copy that shares nothing with the value
structuredClone(value) == Cloned(value)

RECURSIVE WrittenUntilThrow(_, _)
\* the object the wrapper is over once the updater has returned or thrown:
\* the writes before the first throwing one are made
WrittenUntilThrow(obj, writes) ==
  IF writes = <<>> THEN obj
  ELSE LET r == ChangeTrackingProxy(obj, {}, <<>>, Head(writes)) IN
       IF ~r.ok THEN obj ELSE WrittenUntilThrow(r.obj, Tail(writes))

\* Variant of FunctionalUpdate: the wrapper is over the current memory
\* object itself, not over a copy of it.
FunctionalUpdateInPlace(memory, updater) ==
  LET r == RunUpdater(memory, {}, updater.writes)
      result == updater.ret
      written == WrittenUntilThrow(memory, updater.writes)
  IN IF ~r.ok
       THEN [ok |-> FALSE, nextState |-> written, changedPaths |-> {},
             memory |-> written]
     ELSE IF Truthy(result) /\ IsObject(result)
       THEN [ok |-> TRUE, nextState |-> Spread(written, result),
             changedPaths |-> r.changedPaths \cup ObjectKeys(result),
             memory |-> written]
     ELSE [ok |-> TRUE, nextState |-> r.obj, changedPaths |-> r.changedPaths,
           memory |-> written]

\* The functional branch: structuredClone, the updater on the wrapper, and
\* the merge of a returned object.  The writes go to the copy, so the object
\* this._memory held before the call is as it was whether the updater
\* returns or throws.
FunctionalUpdate(memory, updater) ==
  LET clone == structuredClone(memory)
      r == RunUpdater(clone, {}, updater.writes)
      result == updater.ret
  IN IF ~r.ok
       THEN [ok |-> FALSE, nextState |-> memory, changedPaths |-> {},
             memory |-> memory]
     ELSE IF Truthy(result) /\ IsObject(result)
       THEN [ok |-> TRUE, nextState |-> Spread(memory, result),
             changedPaths |-> r.changedPaths \cup ObjectKeys(result),
             memory |-> memory]
     ELSE [ok |-> TRUE, nextState |-> r.obj, changedPaths |-> r.changedPaths,
           memory |-> memory]

ComputeNext(memory, updater) ==
  IF updater.kind = "fn" THEN FunctionalUpdate(memory, updater)
  ELSE ObjectMerge(memory, updater.obj)

\* Variant of IsDirty: only a change of the field itself counts.
IsDirtyExact(changedPaths, stateKey) ==
  \E path \in changedPaths : path = stateKey

\* Variant of IsDirty: the prefix compared without the dot boundary.
IsDirtyNoBoundary(changedPaths, stateKey) ==
  \E path \in changedPaths : StartsWith(path, stateKey)

\* isDirty of the persistence logic
IsDirty(changedPaths, stateKey) ==
  \E path \in changedPaths : path = stateKey \/ StartsWith(path, stateKey \o <<".">>)

\* String(JSON.stringify(value)): what setItem stores
StoredText(value) == Stringify(value)

\* the persistence logic at its start: the store, the setItem calls made so
\* far, and whether an exception left the loop
PersistStart(storage) == [storage |-> storage, setItems |-> <<>>, threw |-> FALSE]

\* localStorage.setItem(storageKey, JSON.stringify(value)) inside try/catch:
\* setItem on a key of `bad` throws and stores nothing
SetItem(p, stateKey, storageKey, value, bad) ==
  [p EXCEPT !.storage = IF storageKey \in bad THEN @
                        ELSE [@ EXCEPT ![storageKey] = StoredText(value)],
            !.setItems = Append(@, [stateKey |-> stateKey, storageKey |-> storageKey,
                                    text |-> StoredText(value),
                                    failed |-> storageKey \in bad])]

RECURSIVE PersistFromUncaught(_, _, _, _, _, _)
\* Variant of PersistFrom: no try/catch around setItem, the exception leaves
\* the loop and set.
PersistFromUncaught(p, persistenceMap, memory, changedPaths, bad, i) ==
  IF i > Len(persistenceMap) THEN p
  ELSE LET stateKey == persistenceMap[i].stateKey
           storageKey == persistenceMap[i].storageKey
       IN IF ~IsDirty(changedPaths, stateKey)
            THEN PersistFromUncaught(p, persistenceMap, memory, changedPaths, bad, i + 1)
          ELSE IF storageKey \in bad
            THEN [SetItem(p, stateKey, storageKey, GetProp(memory, stateKey), bad)
                    EXCEPT !.threw = TRUE]
          ELSE PersistFromUncaught(
                 SetItem(p, stateKey, storageKey, GetProp(memory, stateKey), bad),
                 persistenceMap, memory, changedPaths, bad, i + 1)

RECURSIVE PersistFrom(_, _, _, _, _, _)
\* this._persistenceMap.forEach from entry i on; a setItem that throws is
\* caught and logged, and the loop goes on.
PersistFrom(p, persistenceMap, memory, changedPaths, bad, i) ==
  IF i > Len(persistenceMap) THEN p
  ELSE LET stateKey == persistenceMap[i].stateKey
           storageKey == persistenceMap[i].storageKey
       IN PersistFrom(
            IF IsDirty(changedPaths, stateKey)
              THEN SetItem(p, stateKey, storageKey, GetProp(memory, stateKey), bad)
              ELSE p,
            persistenceMap, memory, changedPaths, bad, i + 1)

\* What a set call leaves behind for the properties: the call, the paths
\* recorded and the paths last read by each closure before it, and its
\* outcome.
SetRecord(st, updater, next, after, invoked, p, bad, seen) ==
  [updater |-> updater, changed |-> next.changedPaths, invoked |-> invoked,
   seen |-> seen,
   recorded |-> [fn \in DOMAIN st.lastReads |-> PathsOf(st.listeners, fn)],
   reads |-> st.lastReads, before |-> st.memory, after |-> after.memory,
   snapshot |-> next.memory,
   stored |-> after.storage, was |-> st.storage, setItems |-> p.setItems,
   bad |-> bad, propagated |-> p.threw]

\* Variant of set: the subscribers are notified once the memory is
\* replaced, and the persisted fields are written after that.
SetNotifyingFirst(st, roots, persistenceMap, updater, bad) ==
  LET Persisted(next, n, p) ==
        [ok |-> ~p.threw,
         st |-> [n.st EXCEPT
                   !.storage = p.storage,
                   !.trace = Append(@, SetRecord(st, updater, next,
                                                 [n.st EXCEPT !.storage = p.storage],
                                                 n.invoked, p, bad, n.st.saw))]]
      Notified(next, n) ==
        Persisted(next, n,
                  PersistFrom(PersistStart(n.st.storage), persistenceMap, n.st.memory,
                              next.changedPaths, bad, 1))
      Computed(next) ==
        IF ~next.ok THEN [ok |-> FALSE, st |-> [st EXCEPT !.memory = next.memory]]
        ELSE Notified(next,
                      NotifyRelevantListeners([st EXCEPT !.memory = next.nextState,
                                                         !.saw = <<>>],
                                              roots, next.changedPaths))
  IN Computed(ComputeNext(st.memory, updater))

\* set(updater): [ok, st]; ok is FALSE when an exception leaves set.  A
\* throwing updater leaves the Cortex as it was; an exception out of the
\* persistence logic would leave the memory replaced and nobody notified.
Set(st, roots, persistenceMap, updater, bad) ==
  LET Notified(next, st2, p, n) ==
        [ok |-> TRUE,
         st |-> [n.st EXCEPT !.trace =
                   Append(@, SetRecord(st, updater, next, st2, n.invoked, p, bad,
                                       n.st.saw))]]
      Persisted(next, st2, p) ==
        IF p.threw
          THEN [ok |-> FALSE,
                st |-> [st2 EXCEPT !.trace =
                          Append(@, SetRecord(st, updater, next, st2, <<>>, p, bad,
                                              <<>>))]]
          ELSE Notified(next, st2, p,
                        NotifyRelevantListeners([st2 EXCEPT !.saw = <<>>], roots,
                                                next.changedPaths))
      Replaced(next, st1) ==
        LET Stored(p) == Persisted(next, [st1 EXCEPT !.storage = p.storage], p)
        IN Stored(PersistFrom(PersistStart(st1.storage), persistenceMap, st1.memory,
                              next.changedPaths, bad, 1))
      Computed(next) ==
        IF ~next.ok THEN [ok |-> FALSE, st |-> [st EXCEPT !.memory = next.memory]]
        ELSE Replaced(next, [st EXCEPT !.memory = next.nextState])
  IN Computed(ComputeNext(st.memory, updater))

RECURSIVE RunSynapse(_, _, _, _, _)
\* A synapse: its set calls one after the other; a throwing updater ends it.
RunSynapse(st, roots, persistenceMap, calls, bad) ==
  IF calls = <<>> THEN st
  ELSE LET After(r) ==
             IF ~r.ok THEN [r.st EXCEPT !.threw = TRUE]
             ELSE RunSynapse(r.st, roots, persistenceMap, Tail(calls), bad)
       IN After(Set(st, roots, persistenceMap, Head(calls), bad))

(***************************************************************************)
(* Cortex: the constructor.                                                *)
(***************************************************************************)
IsMarker(value) == value.t = "persist"

\* value.config?.key || key
StorageKeyOf(key, value) == IF value.key # <<>> THEN value.key ELSE key

\* What the try block of the constructor leaves: the value for the field.
Loaded(value) == [threw |-> FALSE, value |-> value]
\* An exception that leaves the constructor.
LoadThrew == [threw |-> TRUE, value |-> Undef]

\* Variant of LoadPersisted: the stored text is not looked at.
LoadPersistedInitial(storage, storageKey, value, bad) == Loaded(value.initial)

\* Variant of LoadPersisted: no try/catch, a getItem or JSON.parse that
\* throws leaves the constructor.
LoadPersistedUncaught(storage, storageKey, value, bad) ==
  IF storageKey \in bad THEN LoadThrew
  ELSE LET stored == storage[storageKey] IN
       IF stored # NoItem
         THEN LET parsed == JsonParse(stored) IN
              IF parsed.ok THEN Loaded(parsed.val) ELSE LoadThrew
         ELSE Loaded(value.initial)

\* The value loaded for a persisted field: getItem on a key of `bad` throws,
\* JSON.parse throws on text that is not JSON; both are caught and fall back
\* to initial.
LoadPersisted(storage, storageKey, value, bad) ==
  IF storageKey \in bad THEN Loaded(value.initial)
  ELSE LET stored == storage[storageKey] IN
       IF stored # NoItem
         THEN LET parsed == JsonParse(stored) IN
              IF parsed.ok THEN Loaded(parsed.val) ELSE Loaded(value.initial)
         ELSE Loaded(value.initial)

RECURSIVE ConstructFrom(_, _, _, _, _, _)
\* The loop over Object.entries(memory) from position i of KeyOrder on:
\* [threw, liveMemory, persistenceMap]
ConstructFrom(memory, storage, bad, i, liveMemory, persistenceMap) ==
  IF i > Len(KeyOrder)
    THEN [threw |-> FALSE, liveMemory |-> liveMemory, persistenceMap |-> persistenceMap]
  ELSE LET key == KeyOrder[i] IN
       IF key \in DOMAIN memory /\ IsMarker(memory[key])
         THEN LET storageKey == StorageKeyOf(key, memory[key])
                  r == LoadPersisted(storage, storageKey, memory[key], bad)
              IN IF r.threw
                   THEN [threw |-> TRUE, liveMemory |-> liveMemory,
                         persistenceMap |-> persistenceMap]
                 ELSE ConstructFrom(memory, storage, bad, i + 1,
                        [liveMemory EXCEPT ![key] = r.value],
                        Append(persistenceMap,
                               [stateKey |-> key, storageKey |-> storageKey]))
         ELSE ConstructFrom(memory, storage, bad, i + 1, liveMemory, persistenceMap)

Constructor(memory, storage, bad) ==
  ConstructFrom(memory, storage, bad, 1, memory, <<>>)

(***************************************************************************)
(* The live tree: a heap of DOM nodes.  A node is named by its position   *)
(* in the heap; 0 stands for null / undefined.  Node 1 is the mount       *)
(* target.                                                                 *)
(***************************************************************************)
NoNode == 0
TargetNode == 1

\* document.createTextNode(text) / document.createElement(tag), detached
TextNode(text) ==
  [nodeType |-> "text", tag |-> "", nodeValue |-> text, value |-> "",
   attrs |-> <<>>, listeners |-> <<>>, parentNode |-> NoNode, childNodes |-> <<>>]
ElementNode(tag) ==
  [nodeType |-> "element", tag |-> tag, nodeValue |-> "", value |-> "",
   attrs |-> <<>>, listeners |-> <<>>, parentNode |-> NoNode, childNodes |-> <<>>]

\* the document with the empty mount target
EmptyDocument == <<ElementNode("div")>>

\* a sequence without its entries equal to x
Without(seq, x) == SelectSeq(seq, LAMBDA y : y # x)
\* position of x in seq (x occurs once)
IndexOf(seq, x) == CHOOSE i \in 1..Len(seq) : seq[i] = x
\* seq with x put before position i
InsertAt(seq, i, x) == SubSeq(seq, 1, i - 1) \o <<x>> \o SubSeq(seq, i, Len(seq))

\* parent.childNodes[index], NoNode when there is none
ChildAt(dom, parent, index) ==
  IF index < Len(dom[parent].childNodes) THEN dom[parent].childNodes[index + 1]
  ELSE NoNode

\* a node taken out of its parent, if it has one
Detach(dom, node) ==
  IF dom[node].parentNode = NoNode THEN dom
  ELSE [dom EXCEPT ![dom[node].parentNode].childNodes = Without(@, node),
                   ![node].parentNode = NoNode]

\* parent.appendChild(node)
AppendChild(dom, parent, node) ==
  LET detached == Detach(dom, node) IN
  [detached EXCEPT ![parent].childNodes = Append(@, node),
                   ![node].parentNode = parent]

\* parent.insertBefore(node, ref): ref undefined appends; ref is a child of
\* parent wherever the reconciler calls it
InsertBefore(dom, parent, node, ref) ==
  IF ref = NoNode THEN AppendChild(dom, parent, node)
  ELSE LET detached == Detach(dom, node) IN
       [detached EXCEPT
          ![parent].childNodes = InsertAt(@, IndexOf(@, ref), node),
          ![node].parentNode = parent]

\* parent.removeChild(node) throws NotFoundError unless node is a child of
\* parent; so does parent.replaceChild(new, node)
IsChildOf(dom, parent, node) == dom[node].parentNode = parent

RemoveChild(dom, parent, node) == Detach(dom, node)

\* parent.replaceChild(new, old), new being a fresh detached node
ReplaceChild(dom, parent, new, old) ==
  [dom EXCEPT
     ![parent].childNodes = [i \in 1..Len(@) |-> IF @[i] = old THEN new ELSE @[i]],
     ![new].parentNode = parent,
     ![old].parentNode = NoNode]

(***************************************************************************)
(* Virtual nodes.  A child is a string, a number, or the object h         *)
(* returns; patch adds el, child and hooks to the object as it goes.      *)
(***************************************************************************)
NoVNode == [k |-> "undefined"]
Str(s) == [k |-> "string", text |-> s]
Number(n) == [k |-> "number", n |-> n]
NoHooks == [none |-> TRUE]
\* currentInstance of observer.js when it is null
NoInstance == [none |-> TRUE]
Hooks(mounts, cleanups) == [mounts |-> mounts, cleanups |-> cleanups]

\* the other values a child can be: null, false, and an array of children
NullChild == [k |-> "null"]
FalseChild == [k |-> "boolean", b |-> FALSE]
ArrayOf(items) == [k |-> "array", items |-> items]

\* Array.isArray(children) ? children : [children]
childArrayOf(children) ==
  IF children.k = "array" THEN children.items ELSE <<children>>

\* Array.prototype.flat() without a depth: the arrays among the entries are
\* replaced by their entries, one level deep
RECURSIVE flat(_)
flat(array) ==
  IF array = <<>> THEN <<>>
  ELSE (IF Head(array).k = "array" THEN Head(array).items ELSE <<Head(array)>>)
       \o flat(Tail(array))

\* c !== null && c !== undefined && c !== false && c !== ''
IsClean(c) == c # NullChild /\ c # NoVNode /\ c # FalseChild /\ c # Str("")

\* Variant of cleanChildren: filter(Boolean), which drops 0 as well.
cleanChildrenTruthy(childArray) ==
  SelectSeq(flat(childArray), LAMBDA c : IsClean(c) /\ c # Number(0))

\* cleanChildren of h: childArray.flat().filter(...)
cleanChildren(childArray) == SelectSeq(flat(childArray), IsClean)

\* h(tag, props, children), children being an array: { tag, props,
\* children: cleanChildren }; el, child and hooks are not set yet
h(tag, props, children) ==
  [k |-> "object", tag |-> tag, props |-> props, children |-> cleanChildren(children),
   el |-> NoNode, child |-> NoVNode, hooks |-> NoHooks]

NoProps == <<>>
WithKey(key) == [key |-> key]
WithValue(value) == [value |-> value]
WithClick(fn) == [onclick |-> fn]

\* the names of the component functions: typeof vNode.tag === 'function'
ComponentNames ==
  {"App", "Child", "Outer", "Inner", "Broken", "ComponentA", "ComponentB"}
IsComponent(vNode) == vNode.k = "object" /\ vNode.tag \in ComponentNames
IsPrimitive(vNode) == vNode.k \in {"string", "number"}
Absent(vNode) == vNode.k = "undefined"
\* !vNode: undefined, null, 0 and '' are falsy
Falsy(vNode) == Absent(vNode) \/ vNode = Number(0) \/ vNode = Str("")

\* typeof vNode
TypeOf(vNode) == IF IsPrimitive(vNode) THEN vNode.k ELSE "object"

\* String(vNode) of a primitive child
StringOf(vNode) == IF vNode.k = "number" THEN DigitChars[vNode.n + 1] ELSE vNode.text

\* vNode.el of anything: a primitive has none
ElOf(vNode) == IF vNode.k = "object" THEN vNode.el ELSE NoNode

\* (c.props && c.props.key) != null
HasKey(vNode) == vNode.k = "object" /\ "key" \in DOMAIN vNode.props

\* Variant of hasKeys: a list counts as keyed when every item carries a key.
hasKeysEvery(children) ==
  children # <<>> /\ \A i \in 1..Len(children) : HasKey(children[i])

\* hasKeys(children)
hasKeys(children) == \E i \in 1..Len(children) : HasKey(children[i])

\* bound of the rendered applications: the nodes alive after a render
MaxNodes == 6
\* bound: the tasks queued and not run yet
MaxTimers == 1
\* bound: the callbacks in one list of a hook container
MaxHooks == 2

(***************************************************************************)
(* The applications.  The root component App returns `view`, the VNode    *)
(* tree its state currently describes; the other components are those of  *)
(* the tests: Child registers a mount and a cleanup callback, Outer        *)
(* renders Inner inside an element, and each registers cleanups.           *)
(***************************************************************************)
Rendered(vNode, mounts, cleanups) ==
  [vNode |-> vNode, mounts |-> mounts, cleanups |-> cleanups, throws |-> FALSE]

ComponentBody(name, props, view) ==
  CASE name = "App" -> Rendered(view, <<>>, <<>>)
    [] name = "Child" ->
         Rendered(h("span", NoProps, <<Str("c")>>), <<"Child.mount">>, <<"Child.cleanup">>)
    [] name = "Outer" ->
         Rendered(h("section", NoProps, <<h("Inner", NoProps, <<>>)>>), <<>>,
                  <<"Outer.cleanup">>)
    [] name = "Inner" ->
         Rendered(h("em", NoProps, <<Str("i")>>), <<>>,
                  <<"Inner.first", "Inner.second">>)
    \* const { c } = store.memory; return h('p', {}, 'c')
    [] name = "ComponentA" -> Rendered(h("p", NoProps, <<Str("c")>>), <<>>, <<>>)
    \* const { a } = store.memory; return h('h1', {}, 'a')
    [] name = "ComponentB" -> Rendered(h("h1", NoProps, <<Str("a")>>), <<>>, <<>>)
    \* Broken calls onMount and onCleanup and then throws
    [] name = "Broken" ->
         [Rendered(NoVNode, <<"Broken.mount">>, <<"Broken.cleanup">>)
            EXCEPT !.throws = TRUE]

\* h('div', {}, children): lists of texts that grow and shrink, a text that
\* changes, and one position taken by a text, a number, an element of either
\* tag, or a component
P == h("p", NoProps, <<>>)
ListViews ==
  {h("div", NoProps, children) :
     children \in
       { <<>>, <<Str("a")>>, <<Str("a"), Str("a")>>, <<Str("a"), Str("a"), Str("a")>>,
         <<Str("a"), Number(0)>>, <<Str("a"), Number(1)>>, <<Number(0)>>,
         <<P>>, <<P, P>>, <<h("span", NoProps, <<Str("c")>>)>>,
         <<h("Child", NoProps, <<>>)>> }}

\* h('div', { onclick }, [ok ? h(Child) : h(Broken)]): a child that may throw,
\* under a handler that calls onMount
BrokenViews ==
  {h("div", NoProps, children) :
     children \in
       { <<>>, <<h("Child", NoProps, <<>>)>>, <<h("Broken", NoProps, <<>>)>>,
         <<h("Child", NoProps, <<>>), h("Broken", NoProps, <<>>)>> }}

\* the keys of the keyed list
Keys == {1, 2, 3}

\* h('ul', {}, items.map((i) => h('li', { key: i.id })))
Arrangements(ids) ==
  UNION {{order \in [1..n -> ids] : \A i, j \in 1..n : i # j => order[i] # order[j]} :
           n \in 0..Cardinality(ids)}
KeyedViews ==
  {h("ul", NoProps, [i \in 1..Len(order) |->
                       h("li", WithKey(order[i]), <<>>)]) :
     order \in Arrangements(Keys)}

\* h('ul', {}, items.map((i) => h(Child, { key: i.id })))
ItemKeys == {1, 2}
ItemViews ==
  {h("ul", NoProps, [i \in 1..Len(order) |->
                       h("Child", WithKey(order[i]), <<>>)]) :
     order \in Arrangements(ItemKeys)}

\* h('ul', {}, [...]) over items of which some carry a key and some do not:
\* h('li', { key: 1 }), h('li', { key: 2 }), h('li'); no key twice in a list
MixedItems == {h("li", WithKey(1), <<>>), h("li", WithKey(2), <<>>), h("li", NoProps, <<>>)}
MixedViews ==
  {h("ul", NoProps, items) :
     items \in {list \in UNION {[1..n -> MixedItems] : n \in 0..2} :
                  \A i, j \in 1..Len(list) :
                    (i # j /\ HasKey(list[i])) => list[i] # list[j]}}

\* h('button', { onclick: editing ? f : g }), and the button without a
\* handler
Handlers == {"f", "g"}
ButtonViews ==
  {h("button", WithClick(fn), <<>>) : fn \in Handlers} \cup {h("button", NoProps, <<>>)}

\* h('input', { value })
InputValues == {"", "a", "b"}
InputViews == {h("input", WithValue(value), <<>>) : value \in InputValues}

\* h('div', {}, [h('h1'), show ? h(Outer) : null]), and the
\* root element swapped between p and h1
NestedViews ==
  {h("div", NoProps, <<h("h1", NoProps, <<>>)>>),
   h("div", NoProps, <<h("h1", NoProps, <<>>), h("Outer", NoProps, <<>>)>>),
   h("div", NoProps, <<h("h1", NoProps, <<>>), h("Child", NoProps, <<>>)>>),
   h("p", NoProps, <<Str("a")>>),
   h("h1", NoProps, <<Str("a")>>)}


(***************************************************************************)
(* The reconciler (patch.js).  The state threaded through a render is d:  *)
(* the heap, whether an exception has left the render, the number of      *)
(* cleanup closures registered so far in this render, the log of what the *)
(* render did, which the properties read, and currentInstance of          *)
(* observer.js.  The registrations of a render are numbered on from those *)
(* the previous tree holds.                                                *)
(***************************************************************************)
RenderStart(dom, regs, instance) ==
  [dom |-> dom, threw |-> FALSE, regs |-> regs, log |-> <<>>, instance |-> instance]
Throw(d) == [d EXCEPT !.threw = TRUE]
Logged(d, event) == [d EXCEPT !.log = Append(@, event)]

\* a text node cannot take children or attributes: appendChild and
\* insertBefore throw HierarchyRequestError, setAttribute is not a function
IsElementNode(dom, node) == dom[node].nodeType = "element"

\* the new node's position in the heap
NewNode(dom) == Len(dom) + 1

\* The order in which `for (const key in allProps)` visits the prop names
\* the modelled components use.
PropOrder == <<"key", "onclick", "value">>

\* key.startsWith('on')
EventKeys == {"onclick"}

\* el.addEventListener(eventName, fn): a listener already in the list is
\* not added again; el.removeEventListener(eventName, fn).  listeners is
\* the list for the one event of the applications.
addEventListener(node, fn) ==
  IF \E i \in 1..Len(node.listeners) : node.listeners[i] = fn THEN node
  ELSE [node EXCEPT !.listeners = Append(@, fn)]
removeEventListener(node, fn) ==
  [node EXCEPT !.listeners = SelectSeq(@, LAMBDA l : l # fn)]

\* the rounds of the loop past `continue`: the event branch, then
\* setAttribute, which no key but 'disabled' escapes
patchChanged(node, key, newProps, oldProps) ==
  LET Rebound(n) ==
        IF key \in EventKeys
          THEN addEventListener(IF key \in DOMAIN oldProps
                                  THEN removeEventListener(n, oldProps[key])
                                  ELSE n,
                                newProps[key])
          ELSE n
  IN [Rebound(node) EXCEPT !.attrs = (key :> newProps[key]) @@ @]

\* Variant of patchProp: `value` compared with the old VNode instead of the
\* live node.
patchPropAgainstOldProps(node, key, newProps, oldProps) ==
  IF key \notin DOMAIN newProps
    THEN [node EXCEPT !.attrs = [a \in DOMAIN @ \ {key} |-> @[a]]]
  ELSE IF key \in DOMAIN oldProps /\ oldProps[key] = newProps[key] THEN node
  ELSE IF key = "value" THEN [node EXCEPT !.value = newProps[key]]
  ELSE patchChanged(node, key, newProps, oldProps)

\* one round of the loop of patchProps on the element `node`
patchProp(node, key, newProps, oldProps) ==
  IF key \notin DOMAIN newProps
    THEN [node EXCEPT !.attrs = [a \in DOMAIN @ \ {key} |-> @[a]]]
  ELSE IF key = "value"
    THEN IF node.value # newProps[key] THEN [node EXCEPT !.value = newProps[key]]
         ELSE node
  ELSE IF key \in DOMAIN oldProps /\ oldProps[key] = newProps[key] THEN node
  ELSE patchChanged(node, key, newProps, oldProps)

RECURSIVE patchPropsFrom(_, _, _, _)
patchPropsFrom(node, i, newProps, oldProps) ==
  IF i > Len(PropOrder) THEN node
  ELSE patchPropsFrom(
         IF PropOrder[i] \in DOMAIN oldProps \cup DOMAIN newProps
           THEN patchProp(node, PropOrder[i], newProps, oldProps)
           ELSE node,
         i + 1, newProps, oldProps)

\* patchProps(el, newProps, oldProps) on d; on a text node removeAttribute
\* and setAttribute are not functions
patchProps(d, el, newProps, oldProps) ==
  IF el = NoNode THEN d
  ELSE IF ~IsElementNode(d.dom, el)
    THEN IF \E key \in DOMAIN oldProps \cup DOMAIN newProps :
              \/ key \notin DOMAIN newProps
              \/ /\ key # "value"
                 /\ ~(key \in DOMAIN oldProps /\ oldProps[key] = newProps[key])
           THEN Throw(d) ELSE d
  ELSE [d EXCEPT !.dom[el] = patchPropsFrom(@, 1, newProps, oldProps)]

\* The component functions are user code: ComponentBody (defined with the
\* applications) gives what a component returns and what it registers.
\* renderComponent(vNode): the hook container, the call, vNode.hooks
\* onMount(fn): getInstance(), and the push if there is an instance
onMount(d, fn) ==
  IF d.instance = NoInstance THEN d
  ELSE [d EXCEPT !.instance.mounts = Append(@, fn)]

\* onCleanup(fn); the closure registered is numbered
onCleanup(d, fn) ==
  IF d.instance = NoInstance THEN d
  ELSE [d EXCEPT !.instance.cleanups = Append(@, [fn |-> fn, reg |-> d.regs + 1]),
                 !.regs = @ + 1]

\* the calls of onMount and of onCleanup a function makes, in order
RECURSIVE onMountEach(_, _, _)
onMountEach(d, fns, i) ==
  IF i > Len(fns) THEN d ELSE onMountEach(onMount(d, fns[i]), fns, i + 1)
RECURSIVE onCleanupEach(_, _, _)
onCleanupEach(d, fns, i) ==
  IF i > Len(fns) THEN d ELSE onCleanupEach(onCleanup(d, fns[i]), fns, i + 1)

\* renderComponent(vNode): the hook container, setInstance(hooks), the call,
\* setInstance(null), vNode.hooks = hooks.  A component that throws leaves
\* renderComponent at the call.
renderComponent(d, vNode, body) ==
  LET Called(d1) ==
        IF body.throws
          THEN [d |-> Logged(Throw(d1), [e |-> "render", tag |-> vNode.tag]),
                vNode |-> vNode, rendered |-> NoVNode]
          ELSE [d |-> Logged([d1 EXCEPT !.instance = NoInstance],
                             [e |-> "render", tag |-> vNode.tag]),
                vNode |-> [vNode EXCEPT !.hooks = d1.instance],
                rendered |-> body.vNode]
  IN Called(onCleanupEach(onMountEach([d EXCEPT !.instance = Hooks(<<>>, <<>>)],
                                      body.mounts, 1),
                          body.cleanups, 1))

\* setTimeout(() => vNode.hooks.mounts.forEach(...), 0) when there are any
QueueMounts(d, vNode) ==
  IF vNode.hooks.mounts # <<>>
    THEN Logged(d, [e |-> "setTimeout", mounts |-> vNode.hooks.mounts, el |-> vNode.el])
    ELSE d

RECURSIVE runUnmount(_, _)
RECURSIVE runUnmountAll(_, _, _)
RECURSIVE runCleanups(_, _, _)

\* vNode.hooks.cleanups.forEach((fn) => fn())
runCleanups(d, cleanups, i) ==
  IF i > Len(cleanups) THEN d
  ELSE runCleanups(Logged(d, [e |-> "cleanup", reg |-> cleanups[i].reg,
                              fn |-> cleanups[i].fn]),
                   cleanups, i + 1)

\* vNode.children.forEach(runUnmount)
runUnmountAll(d, children, i) ==
  IF i > Len(children) THEN d
  ELSE runUnmountAll(runUnmount(d, children[i]), children, i + 1)

\* Variant of runUnmount: what the node rendered is unmounted before the
\* node's own hooks run.
runUnmountInnerFirst(d, vNode) ==
  IF vNode.k # "object" THEN d
  ELSE LET ChildUnmounted(d1) ==
             IF ~Absent(vNode.child) THEN runUnmount(d1, vNode.child) ELSE d1
           OwnRun(d1) ==
             IF vNode.hooks # NoHooks THEN runCleanups(d1, vNode.hooks.cleanups, 1)
             ELSE d1
       IN OwnRun(runUnmountAll(ChildUnmounted(d), vNode.children, 1))

\* runUnmount(vNode): a falsy or primitive vNode has no hooks, child or
\* children
runUnmount(d, vNode) ==
  IF vNode.k # "object" THEN d
  ELSE LET ChildUnmounted(d1) ==
             IF ~Absent(vNode.child) THEN runUnmount(d1, vNode.child) ELSE d1
       IN runUnmountAll(
            ChildUnmounted(IF vNode.hooks # NoHooks
                             THEN runCleanups(d, vNode.hooks.cleanups, 1)
                             ELSE d),
            vNode.children, 1)

RECURSIVE createElement(_, _, _)
RECURSIVE createChildren(_, _, _, _, _)
RECURSIVE patch(_, _, _, _, _, _)
RECURSIVE patchComponent(_, _, _, _, _, _)
RECURSIVE patchUnkeyed(_, _, _, _, _, _, _)
RECURSIVE patchKeyed(_, _, _, _, _, _, _, _)
RECURSIVE removeUnused(_, _, _, _, _)

\* vNode.children.forEach((child) => el.appendChild(createElement(child)))
\* from child i on; `done` collects the children as createElement left them
createChildren(d, view, el, children, done) ==
  IF Len(done) = Len(children) THEN [d |-> d, children |-> done]
  ELSE IF d.threw
    THEN [d |-> d, children |-> done \o SubSeq(children, Len(done) + 1, Len(children))]
  ELSE LET Appended(c) ==
             createChildren(IF c.d.threw THEN c.d
                            ELSE [c.d EXCEPT !.dom = AppendChild(@, el, c.el)],
                            view, el, children, Append(done, c.vNode))
       IN Appended(createElement(d, view, children[Len(done) + 1]))

\* createElement(vNode): [d, vNode, el], el the node created
createElement(d, view, vNode) ==
  IF IsPrimitive(vNode)
    THEN [d |-> [d EXCEPT !.dom = Append(@, TextNode(StringOf(vNode)))],
          vNode |-> vNode, el |-> NewNode(d.dom)]
  ELSE IF IsComponent(vNode)
    THEN LET Unwrapped(r, c) == [r.vNode EXCEPT !.child = c.vNode, !.el = c.el]
             ChildCreated(r, c) ==
               [d |-> IF c.d.threw THEN c.d ELSE QueueMounts(c.d, Unwrapped(r, c)),
                vNode |-> Unwrapped(r, c), el |-> c.el]
             ComponentRendered(r) ==
               IF r.d.threw THEN [d |-> r.d, vNode |-> r.vNode, el |-> NoNode]
               ELSE ChildCreated(r, createElement(r.d, view, r.rendered))
         IN ComponentRendered(
              renderComponent(d, vNode, ComponentBody(vNode.tag, vNode.props, view)))
  ELSE LET ChildrenCreated(el, cs) ==
             [d |-> cs.d,
              vNode |-> [vNode EXCEPT !.el = el, !.children = cs.children],
              el |-> el]
           ElementCreated(el, d1) ==
             ChildrenCreated(el, createChildren(patchProps(d1, el, vNode.props, NoProps),
                                                view, el, vNode.children, <<>>))
       IN ElementCreated(NewNode(d.dom),
                         [d EXCEPT !.dom = Append(@, ElementNode(vNode.tag))])

\* the key reconcileChildren gives a child at index i
KeyOf(vNode, i) == IF HasKey(vNode) THEN vNode.props.key ELSE i

\* the map `keyed` of reconcileChildren: for each key, the position (from 1)
\* of the last old child with that key
KeyedMap(oldChildren) ==
  [key \in {KeyOf(oldChildren[j], j - 1) : j \in 1..Len(oldChildren)} |->
     CHOOSE j \in 1..Len(oldChildren) :
       /\ KeyOf(oldChildren[j], j - 1) = key
       /\ \A m \in (j + 1)..Len(oldChildren) : KeyOf(oldChildren[m], m - 1) # key]

\* the simple loop, from index i on
patchUnkeyed(d, view, parent, newChildren, oldChildren, i, done) ==
  IF i >= Len(newChildren) /\ i >= Len(oldChildren) THEN [d |-> d, children |-> done]
  ELSE IF d.threw
    THEN [d |-> d,
          children |-> done \o SubSeq(newChildren, Len(done) + 1, Len(newChildren))]
  ELSE LET Patched(p) ==
             patchUnkeyed(p.d, view, parent, newChildren, oldChildren, i + 1,
                          IF i < Len(newChildren) THEN Append(done, p.vNode) ELSE done)
       IN Patched(patch(d, view, parent,
                        IF i < Len(newChildren) THEN newChildren[i + 1] ELSE NoVNode,
                        IF i < Len(oldChildren) THEN oldChildren[i + 1] ELSE NoVNode,
                        i))

\* newChildren.forEach of the keyed diffing, from index i on; `unused` holds
\* the keys still in the map
patchKeyed(d, view, parent, newChildren, oldChildren, unused, i, done) ==
  IF i >= Len(newChildren) \/ d.threw
    THEN [d |-> d, unused |-> unused,
          children |-> done \o SubSeq(newChildren, Len(done) + 1, Len(newChildren))]
  ELSE IF KeyOf(newChildren[i + 1], i) \in unused
    \* A. match found
    THEN LET Moved(p, el, domChildAtIndex) ==
               IF p.d.threw \/ el = NoNode \/ domChildAtIndex = el THEN p.d
               ELSE IF ~IsElementNode(p.d.dom, parent) THEN Throw(p.d)
               ELSE Logged([p.d EXCEPT !.dom = InsertBefore(@, parent, el, domChildAtIndex)],
                           [e |-> "insertBefore", node |-> el])
             Matched(oldVNode, p) ==
               patchKeyed(Moved(p,
                                IF ElOf(p.vNode) # NoNode THEN ElOf(p.vNode)
                                ELSE ElOf(oldVNode),
                                ChildAt(p.d.dom, parent, i)),
                          view, parent, newChildren, oldChildren,
                          unused \ {KeyOf(newChildren[i + 1], i)}, i + 1,
                          Append(done, p.vNode))
             Found(oldVNode) ==
               Matched(oldVNode, patch(d, view, parent, newChildren[i + 1], oldVNode, i))
         IN Found(oldChildren[KeyedMap(oldChildren)[KeyOf(newChildren[i + 1], i)]])
  \* B. no match
  ELSE LET Placed(c) ==
             patchKeyed(IF c.d.threw THEN c.d
                        ELSE IF ~IsElementNode(c.d.dom, parent) THEN Throw(c.d)
                        ELSE [c.d EXCEPT !.dom = InsertBefore(@, parent, c.el,
                                                              ChildAt(c.d.dom, parent, i))],
                        view, parent, newChildren, oldChildren, unused, i + 1,
                        Append(done, c.vNode))
       IN Placed(createElement(d, view, newChildren[i + 1]))

\* Object.values(keyed).forEach: the old children never matched, in the
\* order of their keys (integer keys enumerate in ascending order)
removeUnused(d, parent, oldChildren, unused, key) ==
  IF unused = {} \/ d.threw THEN d
  ELSE IF key \notin unused THEN removeUnused(d, parent, oldChildren, unused, key + 1)
  ELSE LET Removed(el) ==
             IF el # NoNode /\ IsChildOf(d.dom, parent, el)
               THEN Logged([d EXCEPT !.dom = RemoveChild(@, parent, el)],
                           [e |-> "removeChild", node |-> el])
               ELSE d
       IN removeUnused(Removed(ElOf(oldChildren[KeyedMap(oldChildren)[key]])),
                       parent, oldChildren, unused \ {key}, key + 1)

\* Variant of reconcileChildren: the index-based loop whether or not the
\* children carry keys.
reconcileChildrenByIndex(d, view, parent, newChildren, oldChildren) ==
  patchUnkeyed(d, view, parent, newChildren, oldChildren, 0, <<>>)

\* reconcileChildren(parent, newChildren, oldChildren): [d, children]
reconcileChildren(d, view, parent, newChildren, oldChildren) ==
  IF ~(hasKeys(newChildren) \/ hasKeys(oldChildren))
    THEN patchUnkeyed(d, view, parent, newChildren, oldChildren, 0, <<>>)
  ELSE LET UnusedRemoved(r) ==
             [d |-> removeUnused(r.d, parent, oldChildren, r.unused, 0),
              children |-> r.children]
       IN UnusedRemoved(patchKeyed(d, view, parent, newChildren, oldChildren,
                                   DOMAIN KeyedMap(oldChildren), 0, <<>>))

\* oldVNode.el || parent.childNodes[index]
ElOrChildAt(dom, parent, oldVNode, index) ==
  IF ElOf(oldVNode) # NoNode THEN ElOf(oldVNode) ELSE ChildAt(dom, parent, index)

\* the "Changed Type" test of patch
TagOf(vNode) == IF vNode.k = "object" THEN vNode.tag ELSE "undefined"
ChangedType(newVNode, oldVNode) ==
  \/ TypeOf(newVNode) # TypeOf(oldVNode)
  \/ TypeOf(newVNode) # "string" /\ TagOf(newVNode) # TagOf(oldVNode)

\* Variant of patchComponent: a component that stands where the same
\* component stood with the same props is not called again, its old output
\* is kept.
patchComponentMemo(d, view, parent, newVNode, oldVNode, index) ==
  IF IsComponent(oldVNode) /\ oldVNode.tag = newVNode.tag
     /\ oldVNode.props = newVNode.props /\ oldVNode.tag # "App"
    THEN [d |-> d, vNode |-> oldVNode]
  ELSE LET Unwrapped(r, p) == [r.vNode EXCEPT !.child = p.vNode, !.el = ElOf(p.vNode)]
           ChildPatched(r, p) ==
             [d |-> IF p.d.threw \/ ~Falsy(oldVNode) THEN p.d
                    ELSE QueueMounts(p.d, Unwrapped(r, p)),
              vNode |-> Unwrapped(r, p)]
           ComponentRendered(r) ==
             ChildPatched(r, patch(r.d, view, parent, r.rendered,
                                   IF oldVNode.k = "object" THEN oldVNode.child
                                   ELSE NoVNode,
                                   index))
       IN ComponentRendered(
            renderComponent(d, newVNode,
                            ComponentBody(newVNode.tag, newVNode.props, view)))

\* the component branch of patch: the component is called, its output is
\* patched against the old output, and its mount callbacks are queued when
\* there was no old node
patchComponent(d, view, parent, newVNode, oldVNode, index) ==
  LET Unwrapped(r, p) == [r.vNode EXCEPT !.child = p.vNode, !.el = ElOf(p.vNode)]
      ChildPatched(r, p) ==
        [d |-> IF p.d.threw \/ ~Falsy(oldVNode) THEN p.d
               ELSE QueueMounts(p.d, Unwrapped(r, p)),
         vNode |-> Unwrapped(r, p)]
      ComponentRendered(r) ==
        ChildPatched(r, patch(r.d, view, parent, r.rendered,
                              IF oldVNode.k = "object" THEN oldVNode.child
                              ELSE NoVNode,
                              index))
  IN ComponentRendered(
       renderComponent(d, newVNode,
                       ComponentBody(newVNode.tag, newVNode.props, view)))

\* patch(parent, newVNode, oldVNode, index): [d, vNode], vNode being newVNode
\* as patch left it (el, child, hooks set)
patch(d, view, parent, newVNode, oldVNode, index) ==
  IF d.threw THEN [d |-> d, vNode |-> newVNode]
  ELSE IF Absent(newVNode)
    \* unmounting; oldVNode.el of an absent oldVNode is a TypeError
    THEN IF Absent(oldVNode) THEN [d |-> Throw(d), vNode |-> newVNode]
         ELSE LET Unmounted(el, d1) ==
                    [d |-> IF el = NoNode THEN d1
                           ELSE IF ~IsChildOf(d1.dom, parent, el) THEN Throw(d1)
                           ELSE Logged([d1 EXCEPT !.dom = RemoveChild(@, parent, el)],
                                       [e |-> "removeChild", node |-> el]),
                     vNode |-> newVNode]
              IN Unmounted(ElOrChildAt(d.dom, parent, oldVNode, index),
                           runUnmount(d, oldVNode))
  ELSE IF IsComponent(newVNode)
    THEN patchComponent(d, view, parent, newVNode, oldVNode, index)
  ELSE IF Absent(oldVNode)
    THEN IF ~IsElementNode(d.dom, parent) THEN [d |-> Throw(d), vNode |-> newVNode]
         ELSE LET Created(c) ==
                    [d |-> IF c.d.threw THEN c.d
                           ELSE [c.d EXCEPT !.dom = AppendChild(@, parent, c.el)],
                     vNode |-> c.vNode]
              IN Created(createElement(d, view, newVNode))
  ELSE IF ChangedType(newVNode, oldVNode)
    THEN LET Replaced(el, c) ==
               IF c.d.threw THEN [d |-> c.d, vNode |-> c.vNode]
               ELSE IF ~IsChildOf(c.d.dom, parent, el)
                 THEN [d |-> Throw(c.d), vNode |-> c.vNode]
               ELSE [d |-> Logged([c.d EXCEPT !.dom = ReplaceChild(@, parent, c.el, el)],
                                  [e |-> "replaceChild", node |-> el]),
                     vNode |-> c.vNode]
             Replacing(el) ==
               IF el = NoNode THEN [d |-> d, vNode |-> newVNode]
               ELSE Replaced(el, createElement(d, view, newVNode))
         IN Replacing(ElOrChildAt(d.dom, parent, oldVNode, index))
  ELSE IF IsPrimitive(newVNode)
    THEN IF newVNode = oldVNode THEN [d |-> d, vNode |-> newVNode]
         ELSE LET TextUpdated(el) ==
                    IF el # NoNode
                      \* assigning nodeValue has no effect on an element
                      THEN IF IsElementNode(d.dom, el) THEN d
                           ELSE [d EXCEPT !.dom[el].nodeValue = StringOf(newVNode)]
                    ELSE IF ~IsElementNode(d.dom, parent) THEN Throw(d)
                    ELSE [d EXCEPT !.dom =
                            AppendChild(Append(@, TextNode(StringOf(newVNode))),
                                        parent, NewNode(@))]
              IN [d |-> TextUpdated(ChildAt(d.dom, parent, index)), vNode |-> newVNode]
  ELSE LET ChildrenReconciled(el, r) ==
             [d |-> r.d, vNode |-> [newVNode EXCEPT !.el = el, !.children = r.children]]
           PropsPatched(el, d1) ==
             IF d1.threw THEN [d |-> d1, vNode |-> [newVNode EXCEPT !.el = el]]
             ELSE ChildrenReconciled(el, reconcileChildren(d1, view, el, newVNode.children,
                                                           oldVNode.children))
           SameTag(el) ==
             IF el = NoNode THEN [d |-> d, vNode |-> newVNode]
             ELSE PropsPatched(el, patchProps(d, el, newVNode.props, oldVNode.props))
       IN SameTag(ElOrChildAt(d.dom, parent, oldVNode, index))

(***************************************************************************)
(* Object identity.  Between renders the nodes nothing refers to any more *)
(* are garbage; the nodes that remain are renamed in the order of a walk  *)
(* of the document followed by the detached trees the VNodes still hold.  *)
(* Within a render no node is renamed, so a node has the same name before *)
(* and after the patch.                                                    *)
(***************************************************************************)
RECURSIVE Preorder(_, _)
RECURSIVE PreorderEach(_, _, _)
PreorderEach(dom, nodes, i) ==
  IF i > Len(nodes) THEN <<>>
  ELSE Preorder(dom, nodes[i]) \o PreorderEach(dom, nodes, i + 1)
Preorder(dom, node) == <<node>> \o PreorderEach(dom, dom[node].childNodes, 1)

RECURSIVE RootOf(_, _)
RootOf(dom, node) ==
  IF dom[node].parentNode = NoNode THEN node ELSE RootOf(dom, dom[node].parentNode)

\* the nodes a VNode tree refers to
RECURSIVE ElsOf(_)
ElsOf(vNode) ==
  IF vNode.k # "object" THEN {}
  ELSE ({vNode.el} \ {NoNode}) \cup ElsOf(vNode.child)
       \cup UNION {ElsOf(vNode.children[i]) : i \in 1..Len(vNode.children)}

\* the members of a set of numbers in ascending order
RECURSIVE Ascending(_)
Ascending(S) ==
  IF S = {} THEN <<>>
  ELSE LET least == CHOOSE x \in S : \A y \in S : x <= y
       IN <<least>> \o Ascending(S \ {least})

\* the nodes still referred to, the document first
Live(dom, vNode) ==
  PreorderEach(dom,
               <<TargetNode>> \o
                 Ascending({RootOf(dom, el) : el \in ElsOf(vNode)} \ {TargetNode}),
               1)

Renamed(order, node) == IF node = NoNode THEN NoNode ELSE IndexOf(order, node)

Compact(dom, order) ==
  [i \in 1..Len(order) |->
     [dom[order[i]] EXCEPT
        !.parentNode = Renamed(order, @),
        !.childNodes = [j \in 1..Len(@) |-> Renamed(order, @[j])]]]

\* the cleanup closures a VNode tree holds, by registration, in tree order
RECURSIVE RegsOf(_)
RECURSIVE RegsOfEach(_, _)
RegsOfEach(children, i) ==
  IF i > Len(children) THEN <<>>
  ELSE RegsOf(children[i]) \o RegsOfEach(children, i + 1)
RegsOf(vNode) ==
  IF vNode.k # "object" THEN <<>>
  ELSE (IF vNode.hooks = NoHooks THEN <<>>
        ELSE [i \in 1..Len(vNode.hooks.cleanups) |-> vNode.hooks.cleanups[i].reg])
       \o RegsOf(vNode.child) \o RegsOfEach(vNode.children, 1)

RECURSIVE RenamedVNode(_, _, _)
RenamedVNode(vNode, order, regs) ==
  IF vNode.k # "object" THEN vNode
  ELSE [vNode EXCEPT
          !.el = Renamed(order, @),
          !.child = RenamedVNode(@, order, regs),
          !.children = [i \in 1..Len(@) |-> RenamedVNode(@[i], order, regs)],
          !.hooks = IF @ = NoHooks THEN @
                    ELSE [@ EXCEPT !.cleanups =
                            [i \in 1..Len(@) |-> [@[i] EXCEPT !.reg = IndexOf(regs, @)]]]]

(***************************************************************************)
(* State.                                                                  *)
(***************************************************************************)
VARIABLES
  config,           \* the `memory` argument of the live Cortex, NoConfig before
  _memory,          \* this._memory
  _listeners,       \* this._listeners: entries [fn, paths] in insertion order
  _persistenceMap,  \* this._persistenceMap: entries [stateKey, storageKey]
  localStorage,     \* the durable store: storage key -> text or NoItem
  roots,            \* the components mounted; closure fn renders roots[fn]
  lastReads,        \* observation: the paths each closure read in its last render
  renders,          \* observation: renders of each closure in the last step
  trace,            \* observation: the set calls of the last synapse call
  threw,            \* observation: the last synapse call ended by a throw
  boot,             \* observation: what the constructor just found
  dirtied,          \* observation: the persisted fields set calls have changed
  previous,         \* observation: the instance a constructor call replaced
  outside,          \* observation: the last read of `memory` outside a render
  app,              \* the application mounted on the target, "none" before
  view,             \* the tree the state of App describes
  dom,              \* the live nodes
  prevVNode,        \* prevVNode of mount
  ran,              \* observation: cleanups of prevVNode already invoked
  last,             \* observation: the last render
  observerSlot,     \* currentObserver of observer.js
  instanceSlot,     \* currentInstance of observer.js
  timers,           \* the tasks setTimeout queued, not run yet
  hooked,           \* observation: the last hook calls made outside any render
  given,            \* the `children` argument of a call of h
  made              \* the VNode that call returned, NoVNode before

vars == <<config, _memory, _listeners, _persistenceMap, localStorage, roots,
          lastReads, renders, trace, threw, boot, dirtied, previous,
          outside, app, view, dom, prevVNode, ran, last, observerSlot, instanceSlot,
          timers, hooked, given, made>>

NoConfig == <<>>
NoBoot == [none |-> TRUE]
NoRead == [none |-> TRUE]
NoPrevious == [none |-> TRUE]
NoRender == [none |-> TRUE]
NoCall == [none |-> TRUE]
Closures == 1..MaxSubs

\* the record threaded through a handler, at its start
Start ==
  [memory |-> _memory, listeners |-> _listeners, storage |-> localStorage,
   lastReads |-> lastReads, renders |-> [fn \in Closures |-> 0],
   trace |-> <<>>, threw |-> FALSE, saw |-> <<>>]

\* the variables after a handler that ends in st
Finish(st) ==
  /\ _memory' = st.memory
  /\ _listeners' = st.listeners
  /\ localStorage' = st.storage
  /\ lastReads' = st.lastReads
  /\ renders' = st.renders
  /\ trace' = st.trace
  /\ threw' = st.threw

\* the program when the page has loaded
PageLoaded ==
  /\ config = NoConfig
  /\ _memory = EmptyObj
  /\ _listeners = <<>>
  /\ _persistenceMap = <<>>
  /\ localStorage \in InitialStores
  /\ roots = <<>>
  /\ lastReads = [fn \in Closures |-> {}]
  /\ renders = [fn \in Closures |-> 0]
  /\ trace = <<>>
  /\ threw = FALSE
  /\ boot = NoBoot
  /\ dirtied = {}
  /\ previous = NoPrevious
  /\ outside = NoRead
  /\ app = "none"
  /\ view = NoVNode
  /\ dom = EmptyDocument
  /\ prevVNode = NoVNode
  /\ ran = {}
  /\ last = NoRender
  /\ observerSlot = NoObserver
  /\ instanceSlot = NoInstance
  /\ timers = <<>>
  /\ hooked = NoCall

Init == PageLoaded /\ given = ArrayOf(<<>>) /\ made = NoVNode

\* new Cortex({ memory, synapses }) in a fresh page: nothing is mounted yet.
\* The store throws on the keys of `bad` during the call (on none while the
\* store works).  A constructor that throws leaves no instance.
Construct(memory, bad) ==
  \E c \in {Constructor(memory, localStorage, bad)} :
  /\ config' = IF c.threw THEN NoConfig ELSE memory
  /\ _memory' = IF c.threw THEN EmptyObj ELSE Obj(c.liveMemory)
  /\ _persistenceMap' = IF c.threw THEN <<>> ELSE c.persistenceMap
  /\ _listeners' = <<>>
  /\ roots' = <<>>
  /\ lastReads' = [fn \in Closures |-> {}]
  /\ renders' = [fn \in Closures |-> 0]
  /\ trace' = <<>>
  /\ threw' = FALSE
  /\ boot' = [storage |-> localStorage, bad |-> bad, threw |-> c.threw]
  /\ UNCHANGED localStorage

\* mount(target, Component): a new lifecycle closure, called once.
Mount(Component) ==
  /\ config # NoConfig
  /\ Len(roots) < MaxSubs
  /\ roots' = Append(roots, Component)
  /\ \E st \in {Lifecycle(Start, Len(roots) + 1, Component)} : Finish(st)
  /\ boot' = NoBoot
  /\ UNCHANGED <<config, _persistenceMap>>

\* A lifecycle closure called again from outside this Cortex (it is also the
\* subscriber of every other Cortex its components read).
Rerender(fn) ==
  /\ fn \in 1..Len(roots)
  /\ \E st \in {Lifecycle(Start, fn, roots[fn])} : Finish(st)
  /\ boot' = NoBoot
  /\ UNCHANGED <<config, _persistenceMap, roots>>

ArraysWithin(memory) ==
  LET l == GetProp(memory, kL) IN l.t = "arr" => Len(l.items) <= MaxArr

\* A synapse called from an event handler or a timer, outside any render.
CallSynapse(calls, bad) ==
  /\ config # NoConfig
  /\ \E st \in {RunSynapse(Start, roots, _persistenceMap, calls, bad)} :
       /\ ArraysWithin(st.memory)
       /\ Finish(st)
  /\ boot' = NoBoot
  /\ UNCHANGED <<config, _persistenceMap, roots>>

\* An event handler or a timer reads store.memory.<chain> outside any render:
\* getObserver() is null.
MemoryRead(memory, currentObserver, chain) ==
  [chain |-> chain, raw |-> currentObserver = NoObserver,
   value |-> GetChain(memory, chain)]

ReadOutside(chain) ==
  /\ config # NoConfig
  /\ _listeners' = RunAccesses(_memory, _listeners, NoObserver, << <<chain>> >>)
  /\ outside' = [read |-> MemoryRead(_memory, NoObserver, chain),
                 listeners |-> _listeners]
  /\ renders' = [fn \in Closures |-> 0]
  /\ trace' = <<>>
  /\ threw' = FALSE
  /\ boot' = NoBoot
  /\ previous' = NoPrevious
  /\ UNCHANGED <<config, _memory, _persistenceMap, localStorage, roots, lastReads,
                 dirtied, app, view, dom, prevVNode, ran, last, observerSlot,
                 instanceSlot, timers, hooked, given, made>>

\* No application is mounted on a document while the store is exercised.
NoDocument ==
  UNCHANGED <<app, view, dom, prevVNode, ran, last, observerSlot, instanceSlot,
              timers, hooked, given, made>>

\* The observation variables of the persistence properties, left alone.
Unobserved == NoDocument /\ UNCHANGED <<dirtied, previous, outside>>

Next ==
  \/ \E memory \in Configs : Construct(memory, {}) /\ Unobserved
  \/ \E Component \in Components : Mount(Component) /\ Unobserved
  \/ \E fn \in Closures : Rerender(fn) /\ Unobserved
  \/ \E calls \in Synapses : CallSynapse(calls, {}) /\ Unobserved

Spec == Init /\ [][Next]_vars

(***************************************************************************)
(* The Cortex with a working store, observed over its life: which          *)
(* persisted fields the set calls changed, and which instance a            *)
(* constructor call replaced.                                              *)
(***************************************************************************)
PersistedFields(memory) == {key \in DOMAIN memory : IsMarker(memory[key])}

ObservedConstruct ==
  /\ NoDocument
  /\ previous' = [config |-> config, memory |-> _memory, dirtied |-> dirtied]
  /\ dirtied' = {}
  /\ outside' = NoRead

ObservedRender ==
  /\ NoDocument
  /\ previous' = NoPrevious
  /\ outside' = NoRead
  /\ UNCHANGED dirtied

ObservedSets ==
  /\ NoDocument
  /\ dirtied' = dirtied \cup
       UNION {FieldsChanged(trace'[i].changed, PersistedFields(config)) :
                i \in 1..Len(trace')}
  /\ previous' = NoPrevious
  /\ outside' = NoRead

StoreComponents == {CompCount, CompAll}
StoreSynapses ==
  { <<MergeC(1)>>, <<MergeAB(1)>>, <<FnDeep>>, <<FnPush>>, <<FnWriteAndReturn>>,
    <<MergeBoth>>, <<MergeA(0), MergeAB(0), MergeC(0)>> }
OutsideChains == {<<kA, kB, kC>>, <<kAB>>}

NextStore ==
  \/ \E memory \in Configs : Construct(memory, {}) /\ ObservedConstruct
  \/ \E Component \in StoreComponents : Mount(Component) /\ ObservedRender
  \/ \E fn \in Closures : Rerender(fn) /\ ObservedRender
  \/ \E calls \in StoreSynapses : CallSynapse(calls, {}) /\ ObservedSets
  \/ \E chain \in OutsideChains : ReadOutside(chain)

SpecStore == Init /\ [][NextStore]_vars

(***************************************************************************)
(* The Cortex with a store that throws on some keys during a call.        *)
(***************************************************************************)
BadSets == {{}, {kK}}
FaultySynapses == { <<MergeC(1)>>, <<FnDeep>>, <<MergeBoth>>, <<MergeAB(1), MergeA(0)>> }

NextFaulty ==
  \/ \E memory \in Configs, bad \in BadSets : Construct(memory, bad) /\ Unobserved
  \/ \E Component \in StoreComponents : Mount(Component) /\ Unobserved
  \/ \E fn \in Closures : Rerender(fn) /\ Unobserved
  \/ \E calls \in FaultySynapses, bad \in BadSets :
       CallSynapse(calls, bad) /\ Unobserved

SpecFaulty == Init /\ [][NextFaulty]_vars

(***************************************************************************)
(* An application mounted on a document: the reconciler under every        *)
(* sequence of renders of the application's trees, with a user typing      *)
(* into its inputs.  No store is involved.                                 *)
(***************************************************************************)
\* the registrations whose closure a render invoked
Invoked(log) == {log[i].reg : i \in {j \in 1..Len(log) : log[j].e = "cleanup"}}

\* the names of the applications and the trees each one's App can return
AppNames ==
  {"list", "keyed", "items", "input", "nested", "broken", "mixed", "button"}
\* h('div', {}, [h(ComponentA), h(ComponentB)]), and each of the two alone
PairViews ==
  {h("div", NoProps, <<h("ComponentA", NoProps, <<>>), h("ComponentB", NoProps, <<>>)>>),
   h("div", NoProps, <<h("ComponentA", NoProps, <<>>)>>),
   h("div", NoProps, <<h("ComponentB", NoProps, <<>>)>>)}

ViewsOf(name) ==
  CASE name = "list" -> ListViews
    [] name = "keyed" -> KeyedViews
    [] name = "items" -> ItemViews
    [] name = "input" -> InputViews
    [] name = "nested" -> NestedViews
    [] name = "broken" -> BrokenViews
    [] name = "mixed" -> MixedViews
    [] name = "button" -> ButtonViews
    [] name = "pair" -> PairViews
    [] OTHER -> {}

\* the lifecycle closure of the mount
RootClosure == 1

\* the tasks a render queued with setTimeout, in order
RECURSIVE Queued(_, _)
Queued(log, i) ==
  IF i > Len(log) THEN <<>>
  ELSE (IF log[i].e = "setTimeout" THEN <<[mounts |-> log[i].mounts, el |-> log[i].el]>>
        ELSE <<>>) \o Queued(log, i + 1)

\* the tasks with the node each closure's VNode refers to under its name in
\* the compacted heap, NoNode once nothing else refers to the node
Tasks(queue, order) ==
  [i \in 1..Len(queue) |->
     [queue[i] EXCEPT !.el = IF \E j \in 1..Len(order) : order[j] = @
                               THEN Renamed(order, @) ELSE NoNode]]

\* lifecycle() of mount: setObserver(lifecycle),
\* nextVNode = { tag: Component, props: {}, children: [] },
\* patch(target, nextVNode, prevVNode), setObserver(null),
\* prevVNode = nextVNode.  An exception leaves lifecycle at the call of patch.
PatchTarget(v) ==
  \E d \in {patch(RenderStart(dom, Len(RegsOf(prevVNode)), instanceSlot), v, TargetNode,
                  h("App", NoProps, <<>>), prevVNode, 0)} :
    \E kept \in {IF d.d.threw THEN prevVNode ELSE d.vNode} :
      \E order \in {Live(d.d.dom, kept)} :
        /\ Len(order) <= MaxNodes
        /\ observerSlot' = IF d.d.threw THEN RootClosure ELSE NoObserver
        /\ instanceSlot' = d.d.instance
        /\ timers' = Tasks(timers \o Queued(d.d.log, 1), order)
        /\ Len(timers') <= MaxTimers
        /\ hooked' = NoCall
        /\ view' = v
        /\ dom' = Compact(d.d.dom, order)
        /\ prevVNode' = RenamedVNode(kept, order, RegsOf(kept))
        /\ ran' = IF d.d.threw
                    THEN ran \cup (Invoked(d.d.log) \cap Range(RegsOf(prevVNode)))
                    ELSE {}
        /\ last' = [threw |-> d.d.threw, before |-> dom, oldVNode |-> prevVNode,
                    after |-> d.d.dom, newVNode |-> d.vNode, log |-> d.d.log,
                    ran |-> ran]

\* mount(target, Component)
MountTarget(name, v) ==
  /\ app = "none"
  /\ v \in ViewsOf(name)
  /\ app' = name
  /\ PatchTarget(v)

\* the application's state changes and the store calls lifecycle again
RenderView(v) ==
  /\ app # "none"
  /\ v \in ViewsOf(app)
  /\ app' = app
  /\ PatchTarget(v)

\* the user types into an input: its live value changes, no render follows
UserTypes(node, value) ==
  /\ node \in 1..Len(dom)
  /\ dom[node].tag = "input"
  /\ dom[node].value # value
  /\ dom' = [dom EXCEPT ![node].value = value]
  /\ last' = NoRender
  /\ hooked' = NoCall
  /\ UNCHANGED <<app, view, prevVNode, ran, observerSlot, instanceSlot, timers>>

\* what the callbacks of the applications do when they run: Child's mount
\* callback registers a cleanup
CallbackBody(fn) ==
  IF fn = "Child.mount" THEN Rendered(NoVNode, <<>>, <<"Child.late">>)
  ELSE Rendered(NoVNode, <<>>, <<>>)

\* user code that runs outside any render and calls onMount and onCleanup
\* as `body` says; only the slot and the numbering of closures matter.  For
\* a task queued by patch, el is the node of the component whose callbacks
\* these are.
CalledOutside(body, task, el) ==
  \E d \in {onCleanupEach(onMountEach(RenderStart(dom, 0, instanceSlot), body.mounts, 1),
                          body.cleanups, 1)} :
    /\ d.instance # NoInstance =>
         Len(d.instance.mounts) <= MaxHooks /\ Len(d.instance.cleanups) <= MaxHooks
    /\ instanceSlot' = d.instance
    /\ hooked' = [calls |-> Len(body.mounts) + Len(body.cleanups),
                  before |-> instanceSlot, after |-> d.instance,
                  task |-> task, el |-> el]
    /\ last' = NoRender
    /\ UNCHANGED <<app, view, dom, prevVNode, ran, observerSlot>>

\* the task setTimeout queued first runs: vNode.hooks.mounts.forEach((fn) => fn())
RECURSIVE CallbacksOf(_, _)
CallbacksOf(mounts, i) ==
  IF i > Len(mounts) THEN Rendered(NoVNode, <<>>, <<>>)
  ELSE LET rest == CallbacksOf(mounts, i + 1)
           body == CallbackBody(mounts[i])
       IN Rendered(NoVNode, body.mounts \o rest.mounts, body.cleanups \o rest.cleanups)

RunTimer ==
  /\ timers # <<>>
  /\ timers' = Tail(timers)
  /\ CalledOutside(CallbacksOf(Head(timers).mounts, 1), TRUE, Head(timers).el)

\* an event handler calls onMount(fn)
HandleEvent ==
  /\ app = "broken"
  /\ UNCHANGED timers
  /\ CalledOutside(Rendered(NoVNode, <<"handler.mount">>, <<>>), FALSE, NoNode)

NoStore ==
  UNCHANGED <<config, _memory, _listeners, _persistenceMap, localStorage, roots,
              lastReads, renders, trace, threw, boot, dirtied, previous, outside,
              given, made>>

InitDom == Init /\ localStorage = [key \in StorageKeys |-> NoItem]

NextDom ==
  \/ \E name \in AppNames : \E v \in ViewsOf(name) : MountTarget(name, v) /\ NoStore
  \/ \E v \in ViewsOf(app) : RenderView(v) /\ NoStore
  \/ \E node \in 1..Len(dom), value \in InputValues : UserTypes(node, value) /\ NoStore
  \/ RunTimer /\ NoStore
  \/ HandleEvent /\ NoStore

SpecDom == InitDom /\ [][NextDom]_vars

(***************************************************************************)
(* An application whose components read a Cortex: mount gives the whole    *)
(* tree one lifecycle closure, which is the reader of every `memory`       *)
(* access made while patch runs, and the subscriber the Cortex calls.      *)
(***************************************************************************)
\* the `memory` accesses of a component function: ComponentA reads c,
\* ComponentB reads a.b.c
AccessesOf(name) ==
  CASE name = "ComponentA" -> << <<<<kC>>>> >>
    [] name = "ComponentB" -> << <<<<kA, kB, kC>>>> >>
    [] OTHER -> <<>>

RECURSIVE AccessesOfEach(_, _)
AccessesOfEach(children, i) ==
  IF i > Len(children) THEN <<>>
  ELSE AccessesOf(children[i].tag) \o AccessesOfEach(children, i + 1)

\* what the closure of mount(target, App) reads when App returns v
TreeProgram(v) == Comp(AccessesOfEach(v.children, 1), <<>>, <<>>, <<>>)

PairSynapses ==
  { <<MergeC(0)>>, <<MergeC(1)>>, <<MergeC(2)>>, <<MergeA(0)>>, <<MergeA(1)>>,
    <<MergeAB(1)>>, <<FnDeep>>, <<MergeBoth>> }

\* mount(target, App)
MountPair(v) ==
  /\ Mount(TreeProgram(v))
  /\ MountTarget("pair", v)
  /\ UNCHANGED <<dirtied, previous, outside, given, made>>

\* a synapse makes one set call; the Cortex calls the closure if a path it
\* read is related to a changed path, and the closure patches the target
SetCalled(calls) ==
  /\ app # "none"
  /\ CallSynapse(calls, {})
  /\ IF renders'[RootClosure] > 0 THEN RenderView(view)
     ELSE /\ last' = NoRender
          /\ hooked' = NoCall
          /\ UNCHANGED <<app, view, dom, prevVNode, ran, observerSlot, instanceSlot,
                         timers>>
  /\ UNCHANGED <<dirtied, previous, outside, given, made>>

NextPair ==
  \/ \E memory \in Configs : app = "none" /\ Construct(memory, {}) /\ Unobserved
  \/ \E v \in PairViews : MountPair(v)
  \/ \E calls \in PairSynapses : SetCalled(calls)

SpecPair == InitDom /\ [][NextPair]_vars

(***************************************************************************)
(* The Cortex with a memory whose fields a and l hold references to       *)
(* objects, under object-merge set calls: which object each field refers  *)
(* to after a call.                                                        *)
(***************************************************************************)
\* { a: A, ab: 0, c: 0, l: L }, A and L objects
RefConfig ==
  (kA :> Ref(1)) @@ (kAB :> Num(0)) @@ (kC :> Num(0)) @@ (kL :> Ref(2))

\* set({ c: 1 }), set({ ab: 0 }), set({ a: A }) with the object a refers to
\* at first, set({ a: {...} }) and set({ l: [...] }) with new objects,
\* set({}), and calls that make two or three of them
RefSynapses ==
  { <<MergeC(1)>>, <<MergeC(0)>>, <<MergeAB(0)>>, <<Merge((kA :> Ref(1)))>>,
    <<Merge((kA :> Ref(3)))>>, <<Merge((kL :> Ref(4)))>>,
    <<Merge((kA :> Ref(3)) @@ (kC :> Num(1)))>>, <<Merge(<<>>)>>,
    <<MergeC(1), Merge((kL :> Ref(2)))>>,
    <<MergeAB(0), Merge((kA :> Ref(1))), MergeC(0)>> }

NextRefs ==
  \/ Construct(RefConfig, {}) /\ Unobserved
  \/ Mount(CompCount) /\ Unobserved
  \/ \E fn \in Closures : Rerender(fn) /\ Unobserved
  \/ \E calls \in RefSynapses : CallSynapse(calls, {}) /\ Unobserved

SpecRefs == InitDom /\ [][NextRefs]_vars

(***************************************************************************)
(* h called on every `children` argument: a single child, or an array of  *)
(* children and of arrays of children nested up to MaxDepth.               *)
(***************************************************************************)
Leaves ==
  {Str("A"), Str("B"), Str(""), Number(0), NullChild, NoVNode, FalseChild,
   [k |-> "object", tag |-> "p", props |-> NoProps, children |-> <<>>,
    el |-> NoNode, child |-> NoVNode, hooks |-> NoHooks]}

\* bounds: the entries of the outer array, and the depth arrays are nested to
MaxLen == 2
MaxDepth == 2

\* what items.map(...) and conditions leave inside an array
InnerArrays ==
  {ArrayOf(<<>>), ArrayOf(<<Str("A")>>), ArrayOf(<<NullChild, Str("B")>>),
   ArrayOf(<<Str(""), Number(0)>>)}

\* array wrapped in `depth` more arrays
RECURSIVE Wrapped(_, _)
Wrapped(array, depth) ==
  IF depth = 0 THEN array ELSE ArrayOf(<<Wrapped(array, depth - 1)>>)

Entries ==
  Leaves \cup {Wrapped(array, depth) : array \in InnerArrays, depth \in 0..(MaxDepth - 1)}

\* the array of the test "should ignore falsy children in h()"
FalsyChildren ==
  ArrayOf(<<Str("A"), NullChild, NoVNode, FalseChild, Str(""), Str("B")>>)

Arguments ==
  Leaves \cup {FalsyChildren}
    \cup {ArrayOf(items) : items \in UNION {[1..n -> Entries] : n \in 0..MaxLen}}

\* h('div', {}, children)
CallH ==
  /\ made = NoVNode
  /\ made' = h("div", NoProps, childArrayOf(given))
  /\ UNCHANGED <<config, _memory, _listeners, _persistenceMap, localStorage, roots,
                 lastReads, renders, trace, threw, boot, dirtied, previous, outside,
                 app, view, dom, prevVNode, ran, last, observerSlot, instanceSlot,
                 timers, hooked, given>>

InitH ==
  /\ PageLoaded
  /\ localStorage = [key \in StorageKeys |-> NoItem]
  /\ given \in Arguments
  /\ made = NoVNode

NextH == CallH

SpecH == InitH /\ [][NextH]_vars

(***************************************************************************)
(* Properties.  Paths are compared here by their dot-separated segments.  *)
(***************************************************************************)
\* p equals q, or is a dot-ancestor or a dot-descendant of q
DotRelated(p, q) ==
  IsPrefix(Segments(p), Segments(q)) \/ IsPrefix(Segments(q), Segments(p))

RelatedSets(paths, changed) == \E p \in paths, q \in changed : DotRelated(p, q)

Count(seq, x) == Cardinality({i \in 1..Len(seq) : seq[i] = x})
Mounted == 1..Len(roots)

RECURSIVE JoinDots(_)
\* the dot-delimited path of a chain of property names
JoinDots(chain) ==
  IF Len(chain) = 1 THEN chain[1]
  ELSE chain[1] \o <<".">> \o JoinDots(Tail(chain))

RECURSIVE AssignAt(_, _, _)
\* the value v with the property at the end of chain replaced
AssignAt(v, chain, value) ==
  IF Len(chain) = 1 THEN SetProp(v, chain[1], value)
  ELSE SetProp(v, chain[1], AssignAt(GetProp(v, chain[1]), Tail(chain), value))

\* the effect of one write of an updater on a value, and the paths it assigns
WriteApplied(v, w) ==
  IF w.op = "assign" THEN AssignAt(v, w.chain, w.val)
  ELSE AssignAt(v, w.chain, Arr(Append(GetChain(v, w.chain).items, w.val)))

WritePaths(v, w) ==
  IF w.op = "assign" THEN {JoinDots(w.chain)}
  ELSE {JoinDots(w.chain \o <<IndexKey(Len(GetChain(v, w.chain).items))>>),
        JoinDots(w.chain \o <<kLength>>)}

RECURSIVE WritesApplied(_, _)
WritesApplied(v, writes) ==
  IF writes = <<>> THEN v ELSE WritesApplied(WriteApplied(v, Head(writes)), Tail(writes))

RECURSIVE WritesPaths(_, _)
WritesPaths(v, writes) ==
  IF writes = <<>> THEN {}
  ELSE WritePaths(v, Head(writes)) \cup WritesPaths(WriteApplied(v, Head(writes)), Tail(writes))

ReturnsObject(updater) == updater.kind = "fn" /\ updater.ret.t = "obj"

NoSpuriousNotification ==
  \A i \in 1..Len(trace) : \A fn \in Range(trace[i].invoked) :
    RelatedSets(trace[i].recorded[fn], trace[i].changed)

\* C2 witness: the set call changed only "a"; a closure whose recorded paths
\* include "ab" but nothing related to "a" was left alone.
NoSpuriousNotificationWitness ==
  \E i \in 1..Len(trace) : \E fn \in Mounted :
    /\ trace[i].changed = {kA}
    /\ kAB \in trace[i].recorded[fn]
    /\ ~RelatedSets(trace[i].recorded[fn], trace[i].changed)
    /\ fn \notin Range(trace[i].invoked)

\* C3 (as claimed): the paths recorded for a closure are exactly the paths
\* it read during its most recent render.
RecordedEqualsLastRead ==
  \A fn \in Mounted : PathsOf(_listeners, fn) = lastReads[fn]

\* C4: an object-merge set call leaves the shallow merge of the previous
\* memory and the object, and changes exactly the object's top-level keys.
ObjectMergeIsShallowMerge ==
  \A i \in 1..Len(trace) :
    trace[i].updater.kind = "merge" =>
      LET obj == trace[i].updater.obj.f
          before == trace[i].before.f
          after == trace[i].after.f
      IN /\ DOMAIN after = DOMAIN before \cup DOMAIN obj
         /\ \A k \in DOMAIN after :
              after[k] = IF k \in DOMAIN obj THEN obj[k] ELSE before[k]
         /\ trace[i].changed = DOMAIN obj

\* C4 witness: a merge changed a field and kept another field at a value
\* that an earlier call gave it.
ObjectMergeWitness ==
  \E i \in 1..Len(trace) :
    /\ trace[i].updater.kind = "merge"
    /\ trace[i].before # trace[i].after
    /\ \E k \in DOMAIN trace[i].after.f \ DOMAIN trace[i].updater.obj.f :
         trace[i].after.f[k] # PersistConfig[k] /\ ~IsMarker(PersistConfig[k])

\* C5: a functional set call records the full dot-delimited path of every
\* assignment made through the wrapper, and when the function returns no
\* object the changed paths are exactly those and the next memory is the
\* clone with the writes applied.
FunctionalWritesTracked ==
  \A i \in 1..Len(trace) :
    trace[i].updater.kind = "fn" =>
      /\ WritesPaths(trace[i].before, trace[i].updater.writes) \subseteq trace[i].changed
      /\ ~ReturnsObject(trace[i].updater) =>
           /\ trace[i].changed = WritesPaths(trace[i].before, trace[i].updater.writes)
           /\ trace[i].after = WritesApplied(trace[i].before, trace[i].updater.writes)

\* C5 witness: a write three levels deep into an object that the same
\* function assigned was recorded and applied.
FunctionalWritesWitness ==
  \E i \in 1..Len(trace) :
    /\ trace[i].updater = FnAssignObject
    /\ JoinDots(<<kA, kB, kC>>) \in trace[i].changed
    /\ trace[i].after # trace[i].before

\* C6 (as claimed): when the function returns an object the next memory is
\* the mutated clone with the object's keys merged on top, otherwise the
\* mutated clone alone.
ReturnMergedOnMutatedClone ==
  \A i \in 1..Len(trace) :
    trace[i].updater.kind = "fn" =>
      LET mutated == WritesApplied(trace[i].before, trace[i].updater.writes) IN
      trace[i].after = IF ReturnsObject(trace[i].updater)
                         THEN Spread(mutated, trace[i].updater.ret)
                         ELSE mutated

\* the set calls of the last synapse call whose changed paths related to the
\* paths recorded for fn
RelatedCalls(fn) ==
  {i \in 1..Len(trace) : RelatedSets(trace[i].recorded[fn], trace[i].changed)}

BatchedIntoOneRender ==
  trace # <<>> => \A fn \in Mounted : renders[fn] <= 1

\* C9: within one set call the related closures are invoked in the order of
\* their insertion into the subscriber map.
NotifiedInInsertionOrder ==
  \A i \in 1..Len(trace) :
    LET invoked == trace[i].invoked IN
    \A m, n \in 1..Len(invoked) :
      m < n => ListenerIndex(_listeners, invoked[m]) < ListenerIndex(_listeners, invoked[n])

\* C9 witness: one set call invoked two closures.
NotifiedInInsertionOrderWitness ==
  \E i \in 1..Len(trace) : Len(trace[i].invoked) >= 2

\* the values a store may hold in serialized form
StoredValues == {Num(0), Num(1), Null, Deep(0), Deep(1), Obj((kB :> EmptyObj))}
\* the storage key of a persisted field: config.key, or the field name
ClaimedStorageKey(key) ==
  IF config[key].key = NoKey THEN key ELSE config[key].key

\* C10: after construction a persisted field whose storage key held the
\* serialization of a value starts with that value, and no field of the
\* live memory is a persisted marker.
HydratedFromStore ==
  boot # NoBoot =>
    /\ \A key \in DOMAIN config :
         IsMarker(config[key]) =>
           \A v \in StoredValues :
             boot.storage[ClaimedStorageKey(key)] = Stringify(v) => _memory.f[key] = v
    /\ \A key \in DOMAIN _memory.f : ~IsMarker(_memory.f[key])

\* C10 witness: a field was constructed with a stored value that differs
\* from its declared initial value.
HydratedFromStoreWitness ==
  /\ boot # NoBoot
  /\ \E key \in DOMAIN config :
       /\ IsMarker(config[key])
       /\ boot.storage[ClaimedStorageKey(key)] = Stringify(Deep(1))
       /\ _memory.f[key] = Deep(1)
       /\ config[key].initial # Deep(1)

\* C11: with a store that never fails, every persisted field that some set
\* call has changed (a changed path equal to the field or a dot-descendant
\* of it) is stored under its storage key as the serialization of its
\* current memory value, and a Cortex constructed afterwards with the same
\* configuration starts with the field at the value the replaced instance had.
PersistedFieldsMirrored ==
  /\ config # NoConfig =>
       \A f \in dirtied :
         localStorage[ClaimedStorageKey(f)] = Stringify(_memory.f[f])
  /\ (previous # NoPrevious /\ config # NoConfig) =>
       \A f \in previous.dirtied : _memory.f[f] = previous.memory.f[f]

\* C11 witness: a Cortex constructed over an instance whose set calls had
\* changed both persisted fields starts with the nested field at the value
\* that instance had, which is not the declared initial value.
PersistedFieldsMirroredWitness ==
  /\ previous # NoPrevious
  /\ config # NoConfig
  /\ previous.dirtied = {kA, kC}
  /\ _memory.f[kA] = previous.memory.f[kA]
  /\ _memory.f[kA] # config[kA].initial

\* C12: a set call whose changed paths are all outside every persisted field
\* makes no setItem call and leaves the store as it was; every setItem call
\* of a set call stores the serialization of a persisted field under that
\* field's storage key, and nothing else in the store changes.
NoWriteOutsidePersisted ==
  \A i \in 1..Len(trace) :
    LET r == trace[i]
        fields == PersistedFields(config)
    IN /\ FieldsChanged(r.changed, fields) = {} =>
            r.setItems = <<>> /\ r.stored = r.was
       /\ \A j \in 1..Len(r.setItems) :
            /\ r.setItems[j].stateKey \in fields
            /\ r.setItems[j].storageKey = ClaimedStorageKey(r.setItems[j].stateKey)
            /\ r.setItems[j].text = Stringify(r.after.f[r.setItems[j].stateKey])
       /\ \A k \in DOMAIN r.stored :
            r.stored[k] # r.was[k] =>
              \E f \in FieldsChanged(r.changed, fields) : k = ClaimedStorageKey(f)

\* C12 witness: a set call changed the non-persisted field "ab", whose name
\* has the persisted field "a" as a string prefix, and wrote nothing.
NoWriteOutsidePersistedWitness ==
  \E i \in 1..Len(trace) :
    /\ trace[i].changed = {kAB}
    /\ kA \in PersistedFields(config)
    /\ trace[i].after # trace[i].before
    /\ trace[i].setItems = <<>>
    /\ trace[i].stored = trace[i].was

\* C13: construction does not throw, and a persisted field whose key the
\* store holds nothing for, or cannot be read, or holds text that does not
\* parse, starts with the marker's declared initial value.
FallsBackToInitial ==
  boot # NoBoot =>
    /\ ~boot.threw
    /\ \A key \in PersistedFields(config) :
         LET k == ClaimedStorageKey(key) IN
         (k \in boot.bad \/ boot.storage[k] = NoItem \/ boot.storage[k] = Garbage)
           => _memory.f[key] = config[key].initial

\* C13 witness: the read of a key that held a valid serialized value threw,
\* and the field started with its initial value.
FallsBackToInitialWitness ==
  /\ boot # NoBoot
  /\ config # NoConfig
  /\ kK \in boot.bad
  /\ boot.storage[kK] = Stringify(Deep(1))
  /\ _memory.f[kA] = Deep(0)

\* C14: a setItem that throws during a set call does not leave set: the
\* memory is the next memory, every dirty persisted field is still attempted
\* (and stored where the store accepts it), and every related closure is
\* still invoked.
WriteFailureContained ==
  \A i \in 1..Len(trace) :
    LET r == trace[i]
        fields == PersistedFields(config)
    IN (\E j \in 1..Len(r.setItems) : r.setItems[j].failed) =>
         /\ ~r.propagated
         /\ ~threw
         /\ r.updater.kind = "merge" =>
              \A k \in DOMAIN r.updater.obj.f : r.after.f[k] = r.updater.obj.f[k]
         /\ (r.updater.kind = "fn" /\ ~ReturnsObject(r.updater)) =>
              r.after = WritesApplied(r.before, r.updater.writes)
         /\ \A f \in FieldsChanged(r.changed, fields) :
              /\ \E j \in 1..Len(r.setItems) : r.setItems[j].stateKey = f
              /\ ClaimedStorageKey(f) \notin r.bad =>
                   r.stored[ClaimedStorageKey(f)] = Stringify(r.after.f[f])
         /\ \A fn \in Mounted :
              RelatedSets(r.recorded[fn], r.changed) => fn \in Range(r.invoked)

\* C14 witness: the write of the first dirty field failed, the second dirty
\* field was stored, the memory changed and a closure was invoked.
WriteFailureContainedWitness ==
  \E i \in 1..Len(trace) :
    LET r == trace[i] IN
    /\ Len(r.setItems) = 2
    /\ r.setItems[1].failed
    /\ ~r.setItems[2].failed
    /\ r.stored[kK] # Stringify(r.after.f[kA])
    /\ r.stored[kC] = Stringify(r.after.f[kC])
    /\ r.stored[kC] # r.was[kC]
    /\ r.after # r.before
    /\ r.invoked # <<>>

\* C15: a read of `memory` with no observer registered returns the raw
\* memory (the value read is the memory's) and leaves the subscriber map as
\* it was: no entry created, no path added or removed.
UntrackedReadChangesNothing ==
  outside # NoRead =>
    /\ outside.read.raw
    /\ outside.read.value = GetChain(_memory, outside.read.chain)
    /\ _listeners = outside.listeners

\* C15 witness: with a closure subscribed, a path that closure had not
\* recorded was read outside a render.
UntrackedReadWitness ==
  /\ outside # NoRead
  /\ _listeners # <<>>
  /\ \E fn \in Mounted : JoinDots(outside.read.chain) \notin PathsOf(_listeners, fn)

(***************************************************************************)
(* The reconciler: properties.                                             *)
(***************************************************************************)
\* the tree a VNode describes: tags, child order, text contents; a
\* component stands for what it rendered
RECURSIVE Described(_)
Described(vNode) ==
  IF IsPrimitive(vNode) THEN [text |-> StringOf(vNode)]
  ELSE IF IsComponent(vNode) THEN Described(vNode.child)
  ELSE [tag |-> vNode.tag,
        children |-> [i \in 1..Len(vNode.children) |-> Described(vNode.children[i])]]

\* the live tree under a node
RECURSIVE LiveTree(_, _)
LiveTree(d, node) ==
  IF d[node].nodeType = "text" THEN [text |-> d[node].nodeValue]
  ELSE [tag |-> d[node].tag,
        children |-> [i \in 1..Len(d[node].childNodes) |->
                        LiveTree(d, d[node].childNodes[i])]]

\* the last step was a render that ran to its end
Completed == last # NoRender /\ ~last.threw

\* C16: after mount and after every completed re-render the live tree under
\* the target is the tree the latest output of the root component describes,
\* with no node of a superseded tree left attached.
LiveTreeMatchesVNode ==
  Completed =>
    LiveTree(dom, TargetNode).children = <<Described(prevVNode)>>

\* the keys of a list of keyed children, in order
KeysOf(children) == [i \in 1..Len(children) |-> children[i].props.key]

\* the last render re-rendered a keyed list as a list of the same keys
KeyedRerender ==
  /\ Completed
  /\ last.oldVNode # NoVNode
  /\ app = "keyed"

SameKeys ==
  /\ KeyedRerender
  /\ Len(last.oldVNode.child.children) = Len(last.newVNode.child.children)
  /\ Range(KeysOf(last.oldVNode.child.children))
       = Range(KeysOf(last.newVNode.child.children))

\* the live node the old tree associated with a key
OldNodeOf(key) ==
  LET old == last.oldVNode.child.children
  IN old[CHOOSE i \in 1..Len(old) : old[i].props.key = key].el

\* C17: when a keyed list is re-rendered as a permutation of the same keys,
\* the live node at each key's new position is the node that key had
\* before, and the live children are in the order of the new keys.
KeyedReorderKeepsIdentity ==
  SameKeys =>
    LET new == last.newVNode.child.children
        live == last.after[last.newVNode.child.el].childNodes
    IN /\ Len(live) = Len(new)
       /\ \A i \in 1..Len(new) :
            /\ live[i] = OldNodeOf(new[i].props.key)
            /\ live[i] # NoNode
            /\ last.after[live[i]].attrs = WithKey(new[i].props.key)

\* C17 witness: the list of keys 1, 2, 3 was re-rendered reversed.
KeyedReorderWitness ==
  /\ SameKeys
  /\ KeysOf(last.oldVNode.child.children) = <<1, 2, 3>>
  /\ KeysOf(last.newVNode.child.children) = <<3, 2, 1>>

\* an element VNode (not a component, not a primitive)
IsElement(vNode) == vNode.k = "object" /\ ~IsComponent(vNode)

Min(a, b) == IF a <= b THEN a ELSE b

\* The text child at index i of the element el changed from old to new: its
\* live node is the one that stood there, now with the new text.
TextMutatedInPlace(el, i, new) ==
  /\ i <= Len(last.before[el].childNodes)
  /\ i <= Len(last.after[el].childNodes)
  /\ last.after[el].childNodes[i] = last.before[el].childNodes[i]
  /\ last.after[last.after[el].childNodes[i]] =
       [last.before[last.before[el].childNodes[i]] EXCEPT !.nodeValue = StringOf(new)]

\* The text child at index i of the element el did not change: its live
\* node is the one that stood there, as it was.
TextUntouched(el, i) ==
  /\ i <= Len(last.before[el].childNodes)
  /\ i <= Len(last.after[el].childNodes)
  /\ last.after[el].childNodes[i] = last.before[el].childNodes[i]
  /\ last.after[last.after[el].childNodes[i]] = last.before[last.before[el].childNodes[i]]

\* old and new stand at the same position of the old and the new tree
RECURSIVE CarriedForward(_, _)
CarriedForward(old, new) ==
  IF IsComponent(old) /\ IsComponent(new) /\ old.tag = new.tag
    THEN CarriedForward(old.child, new.child)
  ELSE IF IsElement(old) /\ IsElement(new) /\ old.tag = new.tag
    THEN /\ new.el = old.el
         /\ new.el # NoNode
         /\ last.after[new.el].tag = last.before[old.el].tag
         /\ hasKeys(old.children) \/ hasKeys(new.children) \/
              \A i \in 1..Min(Len(old.children), Len(new.children)) :
                /\ CarriedForward(old.children[i], new.children[i])
                /\ IsPrimitive(old.children[i]) /\ IsPrimitive(new.children[i]) =>
                     IF old.children[i] = new.children[i]
                       THEN TextUntouched(new.el, i)
                       ELSE TextMutatedInPlace(new.el, i, new.children[i])
  ELSE TRUE

\* C18: an element re-rendered at the same position with the same tag keeps
\* its live node; an unkeyed text child whose value changed has its live
\* text node mutated in place, and its unchanged text siblings keep their
\* nodes as they were.
SameTagKeepsNode ==
  Completed /\ last.oldVNode # NoVNode =>
    CarriedForward(last.oldVNode, last.newVNode)

\* every element of the tree that carries a `value` prop shows that value
RECURSIVE ValuesSynced(_, _)
ValuesSynced(d, vNode) ==
  IF vNode.k # "object" THEN TRUE
  ELSE /\ ValuesSynced(d, vNode.child)
       /\ \A i \in 1..Len(vNode.children) : ValuesSynced(d, vNode.children[i])
       /\ IsElement(vNode) /\ "value" \in DOMAIN vNode.props =>
            /\ vNode.el # NoNode
            /\ d[vNode.el].value = vNode.props.value

\* C19: after every completed render the live value of an input whose VNode
\* carries a `value` prop is that value, whatever the user typed since the
\* previous render and whatever value the previous VNode carried.
LiveValueForced == Completed => ValuesSynced(dom, prevVNode)

\* C19 witness: the user had typed over the value, and the render restated
\* the value the previous VNode already carried.
LiveValueForcedWitness ==
  /\ Completed
  /\ app = "input"
  /\ last.oldVNode # NoVNode
  /\ last.oldVNode.child.props.value = view.props.value
  /\ last.before[last.oldVNode.child.el].value # view.props.value

\* where the last render invoked the cleanup of a registration, and where
\* it removed a node
CleanupsOf(reg) ==
  {j \in 1..Len(last.log) : last.log[j].e = "cleanup" /\ last.log[j].reg = reg}
RemovalsOf(node) ==
  {j \in 1..Len(last.log) : last.log[j].e = "removeChild" /\ last.log[j].node = node}

\* every cleanup registered in the subtree c ran once, and not after the
\* removal of the live node of c
CleanedUp(c) ==
  \A reg \in Range(RegsOf(c)) :
    /\ Cardinality(CleanupsOf(reg)) = 1
    /\ \A j \in CleanupsOf(reg), m \in RemovalsOf(ElOf(c)) : j < m

\* the children old has beyond the end of new, at any depth, are cleaned up
RECURSIVE RemovedCleanedUp(_, _)
RemovedCleanedUp(old, new) ==
  IF IsComponent(old) /\ IsComponent(new) /\ old.tag = new.tag
    THEN RemovedCleanedUp(old.child, new.child)
  ELSE IF IsElement(old) /\ IsElement(new) /\ old.tag = new.tag
    THEN hasKeys(old.children) \/ hasKeys(new.children) \/
         /\ \A i \in 1..Min(Len(old.children), Len(new.children)) :
              RemovedCleanedUp(old.children[i], new.children[i])
         /\ \A i \in (Len(new.children) + 1)..Len(old.children) :
              CleanedUp(old.children[i])
  ELSE TRUE

\* C20: when a render removes a conditionally rendered subtree (new child
\* absent, old child present), every cleanup registered by every component
\* of the subtree is invoked exactly once, before the subtree's live node
\* is removed, and no render invokes a cleanup that an earlier render has
\* already invoked.
RemovedSubtreeCleanedUp ==
  last # NoRender /\ last.oldVNode # NoVNode =>
    /\ Completed => RemovedCleanedUp(last.oldVNode, last.newVNode)
    /\ \A j \in 1..Len(last.log) :
         last.log[j].e = "cleanup" => last.log[j].reg \notin last.ran

\* where the last render replaced a node by another
ReplacementsOf(node) ==
  {j \in 1..Len(last.log) : last.log[j].e = "replaceChild" /\ last.log[j].node = node}

\* old and new differ in primitive-vs-node kind or in tag
DifferentKindOrTag(old, new) ==
  /\ ~Absent(old) /\ ~Absent(new)
  /\ \/ IsPrimitive(old) # IsPrimitive(new)
     \/ old.k = "object" /\ new.k = "object" /\ old.tag # new.tag

\* every cleanup registered in the subtree c ran, and ran before the live
\* node of c was replaced
CleanedUpBeforeReplace(c) ==
  \A reg \in Range(RegsOf(c)) :
    /\ CleanupsOf(reg) # {}
    /\ \A j \in CleanupsOf(reg), m \in ReplacementsOf(ElOf(c)) : j < m

\* wherever old and new stand at the same position and differ in kind or
\* tag, the old subtree is cleaned up
RECURSIVE ReplacedCleanedUp(_, _)
ReplacedCleanedUp(old, new) ==
  IF DifferentKindOrTag(old, new) THEN CleanedUpBeforeReplace(old)
  ELSE IF IsComponent(old) /\ IsComponent(new)
    THEN ReplacedCleanedUp(old.child, new.child)
  ELSE IF IsElement(old) /\ IsElement(new)
    THEN hasKeys(old.children) \/ hasKeys(new.children) \/
         \A i \in 1..Min(Len(old.children), Len(new.children)) :
           ReplacedCleanedUp(old.children[i], new.children[i])
  ELSE TRUE

\* C21: when the old and the new node at a position are both present but
\* differ in primitive-vs-node kind or in tag, the render runs the cleanups
\* of every component of the old subtree before the old live node is
\* replaced by the new one.
ReplaceRunsCleanups ==
  Completed /\ last.oldVNode # NoVNode =>
    ReplacedCleanedUp(last.oldVNode, last.newVNode)

\* the last render re-rendered a list whose children all carry keys
KeyedListRerender ==
  /\ Completed
  /\ last.oldVNode # NoVNode
  /\ app \in {"keyed", "items"}

\* C22: in keyed diffing every old child whose key no new child has is
\* removed from the live tree, and each cleanup registered in its subtree is
\* invoked exactly once.
UnmatchedKeyCleanedUp ==
  KeyedListRerender =>
    LET old == last.oldVNode.child.children
        new == last.newVNode.child.children
    IN \A i \in 1..Len(old) :
         old[i].props.key \notin Range(KeysOf(new)) =>
           /\ old[i].el \notin Range(last.after[last.newVNode.child.el].childNodes)
           /\ \A reg \in Range(RegsOf(old[i])) : Cardinality(CleanupsOf(reg)) = 1

\* where the last render queued the mount callbacks of the component c
QueuedFor(c) ==
  {j \in 1..Len(last.log) :
     /\ last.log[j].e = "setTimeout"
     /\ last.log[j].el = c.el
     /\ last.log[j].mounts = c.hooks.mounts}

\* the old child that stands where the new child i stands: the one of its
\* key in a keyed list, the one at its index otherwise
OldAt(olds, news, i) ==
  IF hasKeys(olds) \/ hasKeys(news)
    THEN IF KeyOf(news[i], i - 1) \in DOMAIN KeyedMap(olds)
           THEN olds[KeyedMap(olds)[KeyOf(news[i], i - 1)]]
           ELSE NoVNode
  ELSE IF i <= Len(olds) THEN olds[i] ELSE NoVNode

\* the mount callbacks of every component of `new` that is in the tree for
\* the first time are queued once, those of a component that stays are not
\* queued again
RECURSIVE MountsScheduled(_, _)
MountsScheduled(old, new) ==
  IF new.k # "object" THEN TRUE
  ELSE IF IsComponent(new)
    THEN LET stays == IsComponent(old) /\ old.tag = new.tag
         IN /\ new.hooks # NoHooks /\ new.hooks.mounts # <<>> =>
                 Cardinality(QueuedFor(new)) = IF stays THEN 0 ELSE 1
            /\ MountsScheduled(IF stays THEN old.child ELSE NoVNode, new.child)
  ELSE LET olds == IF IsElement(old) /\ old.tag = new.tag THEN old.children ELSE <<>>
       IN \A i \in 1..Len(new.children) :
            MountsScheduled(OldAt(olds, new.children, i), new.children[i])

\* C23: the mount callbacks a component registered when it was first
\* rendered are queued exactly once, by the render that mounted it, to run
\* in a later task; no callback runs inside a patch, and a re-render of a
\* component that stays in the tree queues nothing.
MountCallbacksRunOnce ==
  Completed => MountsScheduled(last.oldVNode, last.newVNode)

(***************************************************************************)
(* h: properties.                                                          *)
(***************************************************************************)
\* the entries h drops
Dropped == {NullChild, NoVNode, FalseChild, Str("")}

\* h has been called
Called == made # NoVNode

\* the argument is one child, or an array none of whose entries is an array
FlatArgument ==
  \A i \in 1..Len(childArrayOf(given)) : childArrayOf(given)[i].k # "array"

\* list holds the entries of items that are not dropped, each once, in the
\* order they have in items
KeepsOthersInOrder(items, list) ==
  LET keep == {i \in 1..Len(items) : items[i] \notin Dropped}
  IN /\ Len(list) = Cardinality(keep)
     /\ \A i \in keep : list[Cardinality({j \in keep : j <= i})] = items[i]

\* C24: the children list h returns holds no null, undefined, false or
\* empty string, and holds every other entry of the input (strings, numbers
\* including 0, VNodes) exactly once in the input's order; the array
\* ['A', null, undefined, false, '', 'B'] gives exactly ['A', 'B'].
FalsyChildrenDropped ==
  Called =>
    /\ \A i \in 1..Len(made.children) : made.children[i] \notin Dropped
    /\ FlatArgument => KeepsOthersInOrder(childArrayOf(given), made.children)
    /\ given = FalsyChildren => made.children = <<Str("A"), Str("B")>>

\* C24 witness: h was called on the array of the test.
FalsyChildrenDroppedWitness ==
  /\ Called
  /\ given = FalsyChildren
  /\ Len(made.children) = 2

\* the children inside a value at any depth, in order
RECURSIVE LeavesOf(_)
RECURSIVE LeavesOfEach(_, _)
LeavesOfEach(items, i) ==
  IF i > Len(items) THEN <<>> ELSE LeavesOf(items[i]) \o LeavesOfEach(items, i + 1)
LeavesOf(value) ==
  IF value.k = "array" THEN LeavesOfEach(value.items, 1) ELSE <<value>>

\* C25: for arrays nested to any depth the children list h returns is flat:
\* none of its entries is an array, and it holds the entries found at any
\* depth that are not null, undefined, false or '', in order.
NestedChildrenFlattened ==
  Called =>
    /\ \A i \in 1..Len(made.children) : made.children[i].k # "array"
    /\ KeepsOthersInOrder(LeavesOf(given), made.children)

(***************************************************************************)
(* Object identity under an object merge.                                  *)
(***************************************************************************)
\* C26: an object-merge set call leaves every top-level field the object
\* does not name referring to the very object (or holding the very value) it
\* referred to before the call, also when the object's values equal the
\* current values of its keys.
MergeKeepsIdentity ==
  \A i \in 1..Len(trace) :
    trace[i].updater.kind = "merge" =>
      \A k \in DOMAIN trace[i].before.f \ DOMAIN trace[i].updater.obj.f :
        /\ k \in DOMAIN trace[i].after.f
        /\ trace[i].after.f[k] = trace[i].before.f[k]

\* C26 witness: a merge whose values equal the current values of its keys,
\* while a field it does not name refers to an object given by an earlier
\* call.
MergeKeepsIdentityWitness ==
  \E i \in 1..Len(trace) :
    /\ trace[i].updater.kind = "merge"
    /\ DOMAIN trace[i].updater.obj.f # {}
    /\ \A k \in DOMAIN trace[i].updater.obj.f :
         trace[i].updater.obj.f[k] = trace[i].before.f[k]
    /\ \E k \in DOMAIN trace[i].before.f \ DOMAIN trace[i].updater.obj.f :
         /\ trace[i].before.f[k].t = "ref"
         /\ trace[i].before.f[k] # RefConfig[k]

(***************************************************************************)
(* The root driver: properties.                                            *)
(***************************************************************************)
\* the components of a tree, in the order a walk from the root meets them
RECURSIVE ComponentsIn(_)
RECURSIVE ComponentsInEach(_, _)
ComponentsInEach(children, i) ==
  IF i > Len(children) THEN <<>>
  ELSE ComponentsIn(children[i]) \o ComponentsInEach(children, i + 1)
ComponentsIn(vNode) ==
  IF vNode.k # "object" THEN <<>>
  ELSE IF IsComponent(vNode) THEN <<vNode.tag>> \o ComponentsIn(vNode.child)
  ELSE ComponentsInEach(vNode.children, 1)

\* the component functions the last render called, in order
RECURSIVE CalledIn(_, _)
CalledIn(log, i) ==
  IF i > Len(log) THEN <<>>
  ELSE (IF log[i].e = "render" THEN <<log[i].tag>> ELSE <<>>) \o CalledIn(log, i + 1)

\* every component of the tree has the output and the hooks of a call
RECURSIVE AllUnwrapped(_)
AllUnwrapped(vNode) ==
  IF vNode.k # "object" THEN TRUE
  ELSE /\ IsComponent(vNode) => vNode.hooks # NoHooks /\ AllUnwrapped(vNode.child)
       /\ \A i \in 1..Len(vNode.children) : AllUnwrapped(vNode.children[i])

OnlyCountSet ==
  /\ app = "pair"
  /\ Len(trace) = 1
  /\ trace[1].changed = {"c"}
  /\ GetProp(trace[1].before, kA) = GetProp(trace[1].after, kA)

SlotsClearedOnReturn ==
  observerSlot = NoObserver /\ instanceSlot = NoInstance

\* the functions of a list of registered cleanups
FnsOf(cleanups) == [i \in 1..Len(cleanups) |-> cleanups[i].fn]

\* every component of the tree holds the callbacks its own function passed,
\* in the order of its calls, and no other
RECURSIVE OwnHooksOnly(_)
OwnHooksOnly(vNode) ==
  IF vNode.k # "object" THEN TRUE
  ELSE /\ IsComponent(vNode) =>
            /\ vNode.hooks # NoHooks
            /\ vNode.hooks.mounts = ComponentBody(vNode.tag, vNode.props, view).mounts
            /\ FnsOf(vNode.hooks.cleanups)
                 = ComponentBody(vNode.tag, vNode.props, view).cleanups
            /\ OwnHooksOnly(vNode.child)
       /\ \A i \in 1..Len(vNode.children) : OwnHooksOnly(vNode.children[i])

\* C30: a callback passed to onMount or onCleanup goes to the hook lists of
\* the component invocation running at the time of the call and to no other
\* component's lists, and a call made while no component function is
\* running, from a deferred mount callback or an event handler, registers
\* nothing.
HooksGoToRunningInvocation ==
  /\ Completed => OwnHooksOnly(last.newVNode)
  /\ (hooked # NoCall /\ hooked.calls > 0) =>
       hooked.before = NoInstance /\ hooked.after = NoInstance

(***************************************************************************)
(* Deferred mount callbacks.                                               *)
(***************************************************************************)
\* the node is in the document
Attached(d, node) == node # NoNode /\ RootOf(d, node) = TargetNode

\* C31: whenever the task that runs a component's mount callbacks runs, the
\* component's live node is attached to the live tree; the callbacks of a
\* component removed since the patch that mounted it do not run.
MountCallbackFindsNode ==
  (hooked # NoCall /\ hooked.task) => Attached(dom, hooked.el)

\* the cleanups the component c itself registered each ran once
OwnCleanupsRan(c) ==
  c.hooks # NoHooks =>
    \A i \in 1..Len(c.hooks.cleanups) :
      Cardinality(CleanupsOf(c.hooks.cleanups[i].reg)) = 1

\* wherever a component of `new` stands where a different component of
\* `old` stood, the old one is cleaned up and the new one's mount callbacks
\* are queued once
RECURSIVE ComponentsSwapped(_, _)
ComponentsSwapped(old, new) ==
  IF IsComponent(old) /\ IsComponent(new)
    THEN IF old.tag = new.tag THEN ComponentsSwapped(old.child, new.child)
         ELSE /\ OwnCleanupsRan(old)
              /\ new.hooks # NoHooks /\ new.hooks.mounts # <<>> =>
                   Cardinality(QueuedFor(new)) = 1
  ELSE IF IsElement(old) /\ IsElement(new) /\ old.tag = new.tag
    THEN \A i \in 1..Len(new.children) :
           ComponentsSwapped(OldAt(old.children, new.children, i), new.children[i])
  ELSE TRUE

\* C32: when the component rendered at a position changes from one
\* component to a different one between two renders, the cleanups of the
\* first are run exactly once and the mount callbacks of the second are
\* queued exactly once.
ComponentSwapRunsHooks ==
  (Completed /\ last.oldVNode # NoVNode) =>
    ComponentsSwapped(last.oldVNode.child, last.newVNode.child)

\* the registrations among regs whose closure the last render invoked, in
\* the order of the calls
RECURSIVE CleanupsAmong(_, _, _)
CleanupsAmong(log, regs, i) ==
  IF i > Len(log) THEN <<>>
  ELSE (IF log[i].e = "cleanup" /\ log[i].reg \in regs THEN <<log[i].reg>> ELSE <<>>)
       \o CleanupsAmong(log, regs, i + 1)

\* the cleanups of the subtree c ran in tree order, a component's own in
\* registration order before those of what it rendered, and all of them
\* before the removal of the live node of c
UnmountedInOrder(c) ==
  /\ CleanupsAmong(last.log, Range(RegsOf(c)), 1) = RegsOf(c)
  /\ \A reg \in Range(RegsOf(c)) :
       \A j \in CleanupsOf(reg), m \in RemovalsOf(ElOf(c)) : j < m

\* the subtrees the last render unmounted: the children old has beyond the
\* end of new, at any depth
RECURSIVE Unmounted(_, _)
Unmounted(old, new) ==
  IF IsComponent(old) /\ IsComponent(new) /\ old.tag = new.tag
    THEN Unmounted(old.child, new.child)
  ELSE IF IsElement(old) /\ IsElement(new) /\ old.tag = new.tag
          /\ ~hasKeys(old.children) /\ ~hasKeys(new.children)
    THEN UNION {Unmounted(old.children[i], new.children[i]) :
                  i \in 1..Min(Len(old.children), Len(new.children))}
         \cup {old.children[i] : i \in (Len(new.children) + 1)..Len(old.children)}
  ELSE {}

\* C33: during the unmount of a subtree the cleanups run depth-first in tree
\* order, a component's own cleanups in registration order before those of
\* any component nested in what it rendered, and all cleanups of the
\* subtree have run before its live node is removed from its parent.
UnmountOrder ==
  (last # NoRender /\ last.oldVNode # NoVNode) =>
    \A c \in Unmounted(last.oldVNode, last.newVNode) : UnmountedInOrder(c)

\* C33 witness: a render unmounted a component that registered a cleanup
\* and rendered a component with two cleanups, and removed its node.
UnmountOrderWitness ==
  /\ Completed
  /\ last.oldVNode # NoVNode
  /\ \E c \in Unmounted(last.oldVNode, last.newVNode) :
       /\ IsComponent(c)
       /\ Len(RegsOf(c)) >= 3
       /\ c.hooks.cleanups # <<>>
       /\ RemovalsOf(ElOf(c)) # {}

(***************************************************************************)
(* The order of the steps of a set call.                                   *)
(***************************************************************************)
\* the store holds the serialization of every persisted field that the
\* changed paths make dirty, as `memory` has it
HoldsDirtyFields(storage, memory, changed) ==
  \A i \in 1..Len(_persistenceMap) :
    IsDirty(changed, _persistenceMap[i].stateKey) =>
      storage[_persistenceMap[i].storageKey]
        = StoredText(GetProp(memory, _persistenceMap[i].stateKey))

\* C34: within one set call the stored memory is replaced first, then every
\* dirty persisted field is written to the store, then the subscribers are
\* notified: each subscriber, when it is called, reads the next memory and
\* finds the new persisted values in the store.
SetStepsOrdered ==
  \A i \in 1..Len(trace) :
    LET r == trace[i] IN
      /\ Len(r.seen) = Len(r.invoked)
      /\ \A j \in 1..Len(r.seen) :
           /\ r.seen[j].fn = r.invoked[j]
           /\ r.seen[j].memory = r.after
           /\ r.seen[j].memory = ComputeNext(r.before, r.updater).nextState
           /\ r.seen[j].storage = r.stored
           /\ HoldsDirtyFields(r.seen[j].storage, r.after, r.changed)

\* C34 witness: a set call changed a persisted field and the text stored
\* for it, and notified a subscriber.
SetStepsOrderedWitness ==
  \E i \in 1..Len(trace) :
    /\ trace[i].invoked # <<>>
    /\ trace[i].setItems # <<>>
    /\ trace[i].stored # trace[i].was
    /\ trace[i].after # trace[i].before

(***************************************************************************)
(* The choice between keyed and positional diffing.                        *)
(***************************************************************************)
\* some item of the list carries a key
AnyKeyed(children) ==
  \E i \in 1..Len(children) :
    children[i].k = "object" /\ "key" \in DOMAIN children[i].props

\* the key of the item at position i (from 1): its key prop, or its index
\* from 0
KeyAt(children, i) ==
  IF children[i].k = "object" /\ "key" \in DOMAIN children[i].props
    THEN children[i].props.key
  ELSE i - 1

\* the old child keyed diffing pairs with the new child i: the last old
\* child of its key, unless an earlier new child took the key
KeyedPartner(olds, news, i) ==
  IF \E j \in 1..(i - 1) : KeyAt(news, j) = KeyAt(news, i) THEN NoVNode
  ELSE IF \E j \in 1..Len(olds) : KeyAt(olds, j) = KeyAt(news, i)
    THEN olds[CHOOSE j \in 1..Len(olds) :
                /\ KeyAt(olds, j) = KeyAt(news, i)
                /\ \A m \in (j + 1)..Len(olds) : KeyAt(olds, m) # KeyAt(news, i)]
  ELSE NoVNode

\* the old child positional diffing pairs with the new child i
PositionalPartner(olds, i) == IF i <= Len(olds) THEN olds[i] ELSE NoVNode

\* each new element child has the node of its partner of the same tag, and
\* a node no old child had if it has no partner
PairedAs(olds, news, keyed) ==
  \A i \in 1..Len(news) :
    LET partner == IF keyed THEN KeyedPartner(olds, news, i)
                   ELSE PositionalPartner(olds, i)
    IN IsElement(news[i]) =>
         /\ (IsElement(partner) /\ partner.tag = news[i].tag) =>
              news[i].el = partner.el
         /\ partner = NoVNode =>
              \A j \in 1..Len(olds) : IsElement(olds[j]) => olds[j].el # news[i].el

\* the re-render of an element that keeps its tag, with children
ChildrenRerender ==
  /\ Completed
  /\ last.oldVNode # NoVNode
  /\ IsElement(last.oldVNode.child)
  /\ IsElement(last.newVNode.child)
  /\ last.oldVNode.child.tag = last.newVNode.child.tag

\* C35: the children of an element are diffed by key, the whole list, as
\* soon as any item of the old list or of the new list carries a key, the
\* index being the key of an item that has none; they are diffed purely by
\* position only when no item of either list has a key.
KeyedModeWhenAnyKey ==
  ChildrenRerender =>
    PairedAs(last.oldVNode.child.children, last.newVNode.child.children,
             AnyKeyed(last.oldVNode.child.children)
               \/ AnyKeyed(last.newVNode.child.children))

\* C35 witness: a list of two items without keys re-rendered as a list in
\* which one item of two carries a key: the keyed item takes the node of
\* the old item whose index is its key.
KeyedModeWhenAnyKeyWitness ==
  /\ ChildrenRerender
  /\ Len(last.oldVNode.child.children) = 2
  /\ Len(last.newVNode.child.children) = 2
  /\ ~AnyKeyed(last.oldVNode.child.children)
  /\ AnyKeyed(last.newVNode.child.children)
  /\ \E i \in 1..2 : ~HasKey(last.newVNode.child.children[i])
  /\ last.newVNode.child.children[1].el = last.oldVNode.child.children[2].el

(***************************************************************************)
(* Event handlers in the property diff.                                    *)
(***************************************************************************)
\* an element re-rendered as an element of the same tag, on the same node
SameElementRerender ==
  /\ Completed
  /\ last.oldVNode # NoVNode
  /\ IsElement(last.oldVNode.child)
  /\ IsElement(last.newVNode.child)
  /\ last.oldVNode.child.tag = last.newVNode.child.tag
  /\ last.newVNode.child.el = last.oldVNode.child.el

\* C37: when an event-handler prop the old VNode had is absent on the new
\* VNode of the same element, the old handler is no longer attached to the
\* live node after the patch.
RemovedHandlerDetached ==
  (SameElementRerender /\ "onclick" \in DOMAIN last.oldVNode.child.props
     /\ "onclick" \notin DOMAIN last.newVNode.child.props) =>
    \A i \in 1..Len(last.after[last.newVNode.child.el].listeners) :
      last.after[last.newVNode.child.el].listeners[i] # last.oldVNode.child.props.onclick

\* the listeners of the live node of the root element after the last render
ListenersAfter == last.after[last.newVNode.child.el].listeners

\* C36: an event-handler key is rebound only when its handler reference
\* changed: with the same reference the listeners of the node stay as they
\* were, with a changed reference the old handler is detached and the new
\* one attached, and after any sequence of renders exactly one listener,
\* the latest handler, is attached for the event.
HandlerReboundOnChange ==
  /\ (SameElementRerender /\ "onclick" \in DOMAIN last.oldVNode.child.props
        /\ "onclick" \in DOMAIN last.newVNode.child.props) =>
       IF last.oldVNode.child.props.onclick = last.newVNode.child.props.onclick
         THEN ListenersAfter = last.before[last.oldVNode.child.el].listeners
         ELSE \A i \in 1..Len(ListenersAfter) :
                ListenersAfter[i] # last.oldVNode.child.props.onclick
  /\ (Completed /\ IsElement(last.newVNode.child)
        /\ "onclick" \in DOMAIN last.newVNode.child.props) =>
       ListenersAfter = <<last.newVNode.child.props.onclick>>

(***************************************************************************)
(* A functional set whose updater throws.                                  *)
(***************************************************************************)
\* the updater throws on the memory after at least one write through the
\* wrapper
ThrowsAfterWrites(memory, updater) ==
  /\ updater.kind = "fn"
  /\ updater.writes # <<>>
  /\ ChangeTrackingProxy(memory, {}, <<>>, updater.writes[1]).ok
  /\ ~RunUpdater(memory, {}, updater.writes).ok

\* the step is a synapse whose first set call ended by a throw of its updater
UpdaterThrew == threw' /\ trace' = <<>>

\* C38: when the callback passed to a functional set throws after writes
\* through the wrapper, the Cortex is left unchanged: the memory is the value
\* it had before the call, nothing is written to the storage and no
\* subscriber is notified.
ThrowingUpdaterLeavesCortex ==
  [][UpdaterThrew =>
       /\ _memory' = _memory
       /\ localStorage' = localStorage
       /\ renders' = [fn \in Closures |-> 0]
       /\ UNCHANGED <<_listeners, lastReads>>]_vars

\* C38 witness: a synapse ended by a throw in a Cortex with a subscriber and
\* a persisted field, where every updater that throws on the memory throws
\* after a write of a field a subscriber read.
ThrowingUpdaterWitness ==
  /\ threw
  /\ trace = <<>>
  /\ _listeners # <<>>
  /\ _persistenceMap # <<>>
  /\ \E calls \in Synapses : ThrowsAfterWrites(_memory, calls[1])
  /\ \A calls \in Synapses :
       (calls[1].kind = "fn" /\ ~ComputeNext(_memory, calls[1]).ok) =>
         ThrowsAfterWrites(_memory, calls[1])

====
